---- MODULE Spec2Model ----
(***************************************************************************)
(* Prefab gateway: the two-tier spec cache (services/spec_cache_service),  *)
(* the factory webhook receiver (app/routers/webhooks), the vault and ACL  *)
(* services and the /v1/run batch endpoint (app/routers/run).              *)
(*                                                                         *)
(* Conventions.  An optional row or cache entry is a sequence of length 0  *)
(* or 1 (<<>> is "no row").  A nullable DateTime column holds NullTime or  *)
(* a reading of the logical clock `now`.  Identifiers (prefab ids,         *)
(* versions, names) are colon-free tokens as in the repository's examples. *)
(* Each handler takes a set F of fault points: the awaited I/O operations  *)
(* that raise during this request.  Init is the state after the lifespan   *)
(* startup, which has called SpecCacheService.connect(): self._redis is    *)
(* set, and _use_memory tells whether the ping failed.                     *)
(***************************************************************************)
EXTENDS Integers, Sequences, FiniteSets, TLC

\* ------------------------------------------------------------------ bounds
MaxClock == 2
MaxCount == 1
MaxRetry == 1
MaxCalls == 2

\* ----------------------------------------------------------------- domains
None == "None"
NullTime == 0

Prefabs == {"p1"}
Versions == {"v1", "v2"}
Keys == Prefabs \X Versions
SpecIds == {"s1", "s2"}
Urls == {"http://p1.svc"}
EventIds == {"e1", "e2"}

PENDING == "pending"
BUILDING == "building"
DEPLOYING == "deploying"
DEPLOYED == "deployed"
FAILED_STATUS == "failed"
DeploymentStatus == {PENDING, BUILDING, DEPLOYING, DEPLOYED, FAILED_STATUS}

EventTypes == {"deployment.success", "deployment.failed", "deployment.started",
               "deployment.queued"}

\* Python truthiness of an optional string (None and "" are falsy).
Truthy(x) == x # None /\ x # ""

\* ------------------------------------------------------------------- state
VARIABLES
  use_memory,       \* SpecCacheService._use_memory
  tier1,            \* L1: _memory_cache or the Redis keyspace, by cache key
  tier2,            \* L2: prefab_specs rows, by (prefab_id, version)
  events,           \* webhook_events rows, by event_id
  now,              \* logical clock read by datetime.utcnow()
  vault,            \* user_secrets rows, by (user_id, prefab_id, secret_name)
  acl,              \* AccessControlService._user_files, by user_id
  run,              \* the /v1/run request in progress
  ws,               \* FileHandlerService: root, job directories, cleanup task
  res,              \* the last request or function application and its outcome
  inflight          \* requests suspended at an await, by worker

vars ==
  <<use_memory, tier1, tier2, events, now, vault, acl, run, ws, res, inflight>>

\* ------------------------------------------------------- spec cache service
_make_key(prefab_id, version) == <<"spec", prefab_id, version>>

CacheKeys == {_make_key(k[1], k[2]) : k \in Keys}

\* json.dumps / json.loads of a spec dict: the Redis value is a string.
JsonDumps(spec) == <<"json", spec>>
JsonLoads(str) == str[2]

\* A PrefabSpec row as set_spec creates it (column defaults included).
NewPrefabSpec(spec, knative_service_url, deployment_status) ==
  [spec_json |-> spec,
   knative_service_url |-> knative_service_url,
   deployment_status |-> deployment_status,
   deployed_at |-> NullTime,
   call_count |-> 0,
   last_called_at |-> NullTime]

\* _set_redis_cache: every exception is swallowed.
_set_redis_cache(t1, key, spec, F) ==
  IF use_memory THEN [t1 EXCEPT ![key] = <<"obj", spec>>]
  ELSE IF "l1_set" \in F THEN t1
       ELSE [t1 EXCEPT ![key] = JsonDumps(spec)]

\* The L1 read of get_spec: <<spec>> on a hit, <<>> on a miss or a read error.
L1Read(t1, key, F) ==
  IF use_memory
  THEN IF t1[key] # <<>> THEN <<t1[key][2]>> ELSE <<>>
  ELSE IF "l1_get" \notin F /\ t1[key] # <<>>
       THEN <<JsonLoads(t1[key])>>
       ELSE <<>>

\* The L1 delete of delete_spec and update_deployment_status; ok is FALSE when
\* the Redis DELETE raises.
L1Delete(t1, key, F) ==
  IF use_memory THEN [t1 |-> [t1 EXCEPT ![key] = <<>>], ok |-> TRUE]
  ELSE IF "l1_del" \in F THEN [t1 |-> t1, ok |-> FALSE]
       ELSE [t1 |-> [t1 EXCEPT ![key] = <<>>], ok |-> TRUE]

\* A get_spec that does not write the spec it read from L2 back into L1.
get_spec_no_write_back(t1, t2, k, F) ==
  LET key == _make_key(k[1], k[2])
      hit == L1Read(t1, key, F)
  IN IF hit # <<>> THEN [t1 |-> t1, t2 |-> t2, ret |-> hit[1]]
     ELSE IF "db" \in F THEN [t1 |-> t1, t2 |-> t2, ret |-> None]
     ELSE IF t2[k] # <<>>
          THEN [t1 |-> t1,
                t2 |-> [t2 EXCEPT ![k] =
                          <<[t2[k][1] EXCEPT !.last_called_at = now,
                                             !.call_count = @ + 1]>>],
                ret |-> t2[k][1].spec_json]
          ELSE [t1 |-> t1, t2 |-> t2, ret |-> None]

get_spec(t1, t2, k, F) ==
  LET key == _make_key(k[1], k[2])
      hit == L1Read(t1, key, F)
  IN IF hit # <<>> THEN [t1 |-> t1, t2 |-> t2, ret |-> hit[1]]
     ELSE IF "db" \in F THEN [t1 |-> t1, t2 |-> t2, ret |-> None]
     ELSE IF t2[k] # <<>>
          THEN LET record == t2[k][1]
                   spec == record.spec_json
               IN [t1 |-> _set_redis_cache(t1, key, spec, F),
                   t2 |-> [t2 EXCEPT ![k] =
                             <<[record EXCEPT !.last_called_at = now,
                                              !.call_count = @ + 1]>>],
                   ret |-> spec]
          ELSE [t1 |-> t1, t2 |-> t2, ret |-> None]

\* The row set_spec commits: the existing row updated, or a new one.
PublishedRow(t2, k, spec, knative_service_url, deployment_status) ==
  IF t2[k] # <<>>
  THEN [t2[k][1] EXCEPT
          !.spec_json = spec,
          !.knative_service_url =
             IF Truthy(knative_service_url) THEN knative_service_url ELSE @,
          !.deployment_status = deployment_status,
          !.deployed_at = IF deployment_status = DEPLOYED THEN now ELSE @]
  ELSE NewPrefabSpec(spec, knative_service_url, deployment_status)

\* A set_spec that writes L1 before it attempts the L2 commit.
set_spec_l1_first(t1, t2, k, spec, knative_service_url, deployment_status, F) ==
  LET key == _make_key(k[1], k[2])
      t1w == _set_redis_cache(t1, key, spec, F)
      row == PublishedRow(t2, k, spec, knative_service_url, deployment_status)
  IN IF "db" \in F THEN [t1 |-> t1w, t2 |-> t2, ret |-> FALSE]
     ELSE [t1 |-> t1w, t2 |-> [t2 EXCEPT ![k] = <<row>>], ret |-> TRUE]

set_spec(t1, t2, k, spec, knative_service_url, deployment_status, F) ==
  LET key == _make_key(k[1], k[2])
      row == PublishedRow(t2, k, spec, knative_service_url, deployment_status)
  IN IF "db" \in F THEN [t1 |-> t1, t2 |-> t2, ret |-> FALSE]
     ELSE [t1 |-> _set_redis_cache(t1, key, spec, F),
           t2 |-> [t2 EXCEPT ![k] = <<row>>],
           ret |-> TRUE]

delete_spec(t1, t2, k, F) ==
  LET key == _make_key(k[1], k[2])
  IN IF "db" \in F THEN [t1 |-> t1, t2 |-> t2, ret |-> FALSE]
     ELSE LET deleted == t2[k] # <<>>
              t2d == [t2 EXCEPT ![k] = <<>>]
              d == L1Delete(t1, key, F)
          IN [t1 |-> d.t1, t2 |-> t2d, ret |-> d.ok /\ deleted]

\* An update_deployment_status that stamps deployed_at on every transition.
update_deployment_status_stamp(t1, t2, k, status, knative_service_url, F) ==
  LET key == _make_key(k[1], k[2])
      failed == IF "rollback" \in F THEN "raise" ELSE "False"
  IN IF t2[k] = <<>> THEN [t1 |-> t1, t2 |-> t2, ret |-> "False"]
     ELSE IF "db" \in F THEN [t1 |-> t1, t2 |-> t2, ret |-> failed]
     ELSE LET row == [t2[k][1] EXCEPT
                        !.deployment_status = status,
                        !.knative_service_url =
                           IF Truthy(knative_service_url)
                           THEN knative_service_url ELSE @,
                        !.deployed_at = now]
              d == L1Delete(t1, key, F)
          IN [t1 |-> d.t1, t2 |-> [t2 EXCEPT ![k] = <<row>>],
              ret |-> IF d.ok THEN "True" ELSE failed]

\* ret is "True", "False", or "raise" when db.rollback() in the except branch
\* raises in turn.
update_deployment_status(t1, t2, k, status, knative_service_url, F) ==
  LET key == _make_key(k[1], k[2])
      failed == IF "rollback" \in F THEN "raise" ELSE "False"
  IN IF t2[k] = <<>> THEN [t1 |-> t1, t2 |-> t2, ret |-> "False"]
     ELSE IF "db" \in F THEN [t1 |-> t1, t2 |-> t2, ret |-> failed]
     ELSE LET row == [t2[k][1] EXCEPT
                        !.deployment_status = status,
                        !.knative_service_url =
                           IF Truthy(knative_service_url)
                           THEN knative_service_url ELSE @,
                        !.deployed_at = IF status = DEPLOYED THEN now ELSE @]
              t2u == [t2 EXCEPT ![k] = <<row>>]
              d == L1Delete(t1, key, F)
          IN [t1 |-> d.t1, t2 |-> t2u, ret |-> IF d.ok THEN "True" ELSE failed]

\* ---------------------------------------------------------- webhook receiver
\* A webhook_events row.  The columns written once at insert and read by no
\* handler logic (source, event_type, prefab_id, version, payload, signature)
\* are left out.
NewWebhookEvent ==
  [processed |-> FALSE,
   processed_at |-> NullTime,
   processing_error |-> None,
   retry_count |-> 0]

\* A dispatch whose last branch is a bare else: every type other than success
\* and failed is handled as deployment.started.
ProcessEventElse(t1, t2, event_type, k, knative_service_url, F) ==
  IF event_type = "deployment.success"
  THEN update_deployment_status(t1, t2, k, DEPLOYED, knative_service_url, F)
  ELSE IF event_type = "deployment.failed"
  THEN update_deployment_status(t1, t2, k, FAILED_STATUS, None, F)
  ELSE update_deployment_status(t1, t2, k, DEPLOYING, None, F)

\* The event-type dispatch inside the try block.
ProcessEvent(t1, t2, event_type, k, knative_service_url, F) ==
  IF event_type = "deployment.success"
  THEN update_deployment_status(t1, t2, k, DEPLOYED, knative_service_url, F)
  ELSE IF event_type = "deployment.failed"
  THEN update_deployment_status(t1, t2, k, FAILED_STATUS, None, F)
  ELSE IF event_type = "deployment.started"
  THEN update_deployment_status(t1, t2, k, DEPLOYING, None, F)
  ELSE [t1 |-> t1, t2 |-> t2, ret |-> "skip"]

\* A receiver that re-processes every delivery.
IsAlreadyProcessedNever(existing) == FALSE

\* A receiver that takes every recorded event as already processed.
IsAlreadyProcessedAnyRow(existing) == existing # <<>>

\* if existing: if existing.processed: return already_processed
IsAlreadyProcessed(existing) == existing # <<>> /\ existing[1].processed

\* The try block's tail: processed = True, processed_at = None, commit.
MarkProcessed(row) == [row EXCEPT !.processed = TRUE, !.processed_at = NullTime]

\* The except block: processing_error = str(e), retry_count += 1, commit.
RecordError(row) == [row EXCEPT !.processing_error = "error", !.retry_count = @ + 1]

\* A validation that does not look at event_type.
HasRequiredFieldsLax(payload) ==
  Truthy(payload.event_id) /\ Truthy(payload.prefab_id) /\ Truthy(payload.version)

\* all([event_id, event_type, prefab_id, version])
HasRequiredFields(payload) ==
  /\ Truthy(payload.event_id)
  /\ Truthy(payload.event_type)
  /\ Truthy(payload.prefab_id)
  /\ Truthy(payload.version)

WebhookOut(t1, t2, ev, ret) == [t1 |-> t1, t2 |-> t2, ev |-> ev, ret |-> ret]

\* Fault points: "insert" (the commit of the new event row), "db" (the commit
\* inside update_deployment_status), "l1_del" (the Redis DELETE), "rollback"
\* (db.rollback() in update_deployment_status's except branch), "mark" (the
\* commit of processed = True), "record" (the commit in the except block).
receive_factory_webhook(t1, t2, ev, payload, F) ==
  LET event_id == payload.event_id
      event_type == payload.event_type
      prefab_id == payload.prefab_id
      version == payload.version
  IN IF ~HasRequiredFields(payload)
     THEN WebhookOut(t1, t2, ev, "400")
     ELSE IF IsAlreadyProcessed(ev[event_id])
     THEN WebhookOut(t1, t2, ev, "already_processed")
     ELSE IF ev[event_id] = <<>> /\ "insert" \in F
     THEN WebhookOut(t1, t2, ev, "500")
     ELSE
       LET existing == IF ev[event_id] = <<>> THEN NewWebhookEvent
                       ELSE ev[event_id][1]
           u == ProcessEvent(t1, t2, event_type, <<prefab_id, version>>,
                             payload.knative_service_url, F)
           raised == u.ret = "raise" \/ "mark" \in F
       IN IF ~raised
          THEN WebhookOut(u.t1, u.t2,
                          [ev EXCEPT ![event_id] = <<MarkProcessed(existing)>>],
                          "processed")
          ELSE IF "record" \in F
          THEN WebhookOut(u.t1, u.t2, [ev EXCEPT ![event_id] = <<existing>>], "500")
          ELSE WebhookOut(u.t1, u.t2,
                          [ev EXCEPT ![event_id] = <<RecordError(existing)>>],
                          "500")

\* The fields class Settings declares; pydantic reads no other name from the
\* environment.
SettingsFields ==
  {"app_name", "app_version", "debug", "host", "port", "jwt_secret_key",
   "jwt_algorithm", "jwt_expiration_minutes", "DB_HOST", "DB_PORT", "DB_USER",
   "DB_PASSWORD", "DB_NAME", "ENCRYPTION_KEY", "redis_host", "redis_port",
   "redis_db", "redis_password", "vault_url", "vault_token", "acl_service_url",
   "knative_domain_suffix", "knative_namespace", "http_timeout",
   "http_max_retries", "log_level", "log_format"}

\* What the deployment sets WEBHOOK_SECRET to in the environment.
WebhookSecrets == {None, "whsec"}

\* getattr(settings, name, default) where the environment offers env_value
\* under that name.
GetAttrSettings(name, env_value, default) ==
  IF name \in SettingsFields /\ env_value # None THEN env_value ELSE default

\* hmac.new(secret, payload, sha256).hexdigest()
Hmac(secret, payload) == <<secret, payload>>

\* The X-Webhook-Signature header: <<>> when absent, else a MAC.
verify_signature(payload, signature, secret) ==
  IF signature = <<>> THEN FALSE
  ELSE signature = Hmac(secret, payload)

\* POST /webhooks/factory from the first line of the handler: the signature
\* check, then the rest.
factory_webhook(env_secret, x_webhook_signature, t1, t2, ev, payload, F) ==
  LET webhook_secret == GetAttrSettings("WEBHOOK_SECRET", env_secret, None)
  IN IF Truthy(webhook_secret)
        /\ ~verify_signature(payload, x_webhook_signature, webhook_secret)
     THEN WebhookOut(t1, t2, ev, "401")
     ELSE receive_factory_webhook(t1, t2, ev, payload, F)

\* ------------------------------------------------------------ vault service
Users == {"u1", "u2"}
SecretPrefabs == {"p1", "p2"}
SecretNames == {"API_KEY"}
SecretValues == {"sk1", "sk2", ""}
\* user_secrets is unique on (user_id, prefab_id, secret_name); prefab_id is a
\* plain string column, not a foreign key.
VaultKeys == Users \X SecretPrefabs \X SecretNames

ACTIVE == "active"
DISABLED == "disabled"

\* EncryptionService: the empty string passes through unencrypted; a Fernet
\* token is opaque and decrypts to its plaintext.  A ciphertext is a sequence.
encrypt(plaintext) == IF plaintext = "" THEN <<>> ELSE <<"fernet", plaintext>>
decrypt_raw(encrypted_text) == IF encrypted_text = <<>> THEN "" ELSE "fernet"
decrypt(encrypted_text) == IF encrypted_text = <<>> THEN "" ELSE encrypted_text[2]

store_secret_keep_status(vlt, vk, secret_value) ==
  LET encrypted_value == encrypt(secret_value)
  IN IF vlt[vk] # <<>>
     THEN [vlt EXCEPT ![vk] = <<[vlt[vk][1] EXCEPT !.secret_value = encrypted_value,
                                                   !.updated_at = now]>>]
     ELSE [vlt EXCEPT ![vk] = <<[secret_value |-> encrypted_value,
                                 status |-> ACTIVE,
                                 updated_at |-> now,
                                 last_used_at |-> NullTime]>>]

store_secret(vlt, vk, secret_value) ==
  LET encrypted_value == encrypt(secret_value)
  IN IF vlt[vk] # <<>>
     THEN [vlt EXCEPT ![vk] = <<[vlt[vk][1] EXCEPT !.secret_value = encrypted_value,
                                                   !.updated_at = now,
                                                   !.status = ACTIVE]>>]
     ELSE [vlt EXCEPT ![vk] = <<[secret_value |-> encrypted_value,
                                 status |-> ACTIVE,
                                 updated_at |-> now,
                                 last_used_at |-> NullTime]>>]

\* A get_secret whose query leaves out the user_id condition.
get_secret_any_user(vlt, vk) ==
  LET rows == {k \in VaultKeys : /\ k[2] = vk[2] /\ k[3] = vk[3]
                                 /\ vlt[k] # <<>> /\ vlt[k][1].status = ACTIVE}
  IN IF rows = {} THEN [vault |-> vlt, ret |-> None]
     ELSE LET k == CHOOSE x \in rows : x = vk \/ vk \notin rows
          IN [vault |-> [vlt EXCEPT ![k] = <<[vlt[k][1] EXCEPT !.last_used_at = now,
                                                            !.updated_at = now]>>],
              ret |-> decrypt(vlt[k][1].secret_value)]

\* The UPDATE that stamps last_used_at also fires the column's onupdate.
get_secret(vlt, vk) ==
  IF vlt[vk] # <<>> /\ vlt[vk][1].status = ACTIVE
  THEN [vault |-> [vlt EXCEPT ![vk] = <<[vlt[vk][1] EXCEPT !.last_used_at = now,
                                                            !.updated_at = now]>>],
        ret |-> decrypt(vlt[vk][1].secret_value)]
  ELSE [vault |-> vlt, ret |-> None]

delete_secret_hard(vlt, vk) ==
  IF vlt[vk] # <<>>
  THEN [vault |-> [vlt EXCEPT ![vk] = <<>>], ret |-> "True"]
  ELSE [vault |-> vlt, ret |-> "False"]

delete_secret(vlt, vk) ==
  IF vlt[vk] # <<>>
  THEN [vault |-> [vlt EXCEPT ![vk] = <<[vlt[vk][1] EXCEPT !.status = DISABLED,
                                                            !.updated_at = now]>>],
        ret |-> "True"]
  ELSE [vault |-> vlt, ret |-> "False"]

list_secrets_all_users(vlt, user_id, prefab_id) ==
  {<<vk[2], vk[3]>> : vk \in {x \in VaultKeys :
      /\ vlt[x] # <<>>
      /\ vlt[x][1].status = ACTIVE
      /\ (Truthy(prefab_id) => x[2] = prefab_id)}}

\* The rows come back in no stated order: the result is the set of pairs.
list_secrets(vlt, user_id, prefab_id) ==
  {<<vk[2], vk[3]>> : vk \in {x \in VaultKeys :
      /\ vlt[x] # <<>>
      /\ x[1] = user_id
      /\ vlt[x][1].status = ACTIVE
      /\ (Truthy(prefab_id) => x[2] = prefab_id)}}

\* -------------------------------------------------------------- ACL service
Files == {"s3://in", "s3://out", "s3://tmp"}

can_read(a, user_id, s3_uri) == s3_uri \in a[user_id]

grant_ownership_all(a, user_id, s3_uri) == [u \in Users |-> a[u] \cup {s3_uri}]

grant_ownership(a, user_id, s3_uri) == [a EXCEPT ![user_id] = @ \cup {s3_uri}]

revoke_access(a, user_id, s3_uri) ==
  IF s3_uri \in a[user_id]
  THEN [acl |-> [a EXCEPT ![user_id] = @ \ {s3_uri}], ret |-> "True"]
  ELSE [acl |-> a, ret |-> "False"]

\* ----------------------------------------------------------- /v1/run engine
\* The manifests behind the spec ids: spec["functions"], each with its
\* parameters, its secrets and the OutputFile fields of returns.properties.
SpecFunctions(spec) ==
  IF spec = "s1"
  THEN <<[name |-> "convert",
          parameters |-> <<[name |-> "file", type |-> "InputFile", required |-> TRUE]>>,
          secrets |-> <<[name |-> "API_KEY", required |-> TRUE]>>,
          returns |-> {"out"}]>>
  ELSE <<[name |-> "get_weather",
          parameters |-> <<[name |-> "city", type |-> "string", required |-> TRUE]>>,
          secrets |-> <<[name |-> "API_KEY", required |-> TRUE]>>,
          returns |-> {}],
         [name |-> "export",
          parameters |-> <<>>,
          secrets |-> <<>>,
          returns |-> {"out"}]>>

\* A JSON input value with its Python type.
PyStr(v) == [t |-> "str", v |-> v]
PyInt(v) == [t |-> "int", v |-> v]

NoInputs == [n \in {} |-> PyStr("")]

\* PrefabCall values offered to the endpoint.
CallTemplates ==
  {[prefab_id |-> "p1", version |-> "v1", function_name |-> "convert",
    inputs |-> [n \in {"file"} |-> PyStr("s3://in")]],
   [prefab_id |-> "p1", version |-> "v1", function_name |-> "get_weather",
    inputs |-> [n \in {"city"} |-> PyStr("London")]],
   [prefab_id |-> "p1", version |-> "v1", function_name |-> "get_weather",
    inputs |-> [n \in {"city"} |-> PyInt("7")]],
   [prefab_id |-> "p1", version |-> "v2", function_name |-> "get_weather",
    inputs |-> [n \in {"city"} |-> PyStr("London")]],
   [prefab_id |-> "p1", version |-> "v1", function_name |-> "missing",
    inputs |-> NoInputs],
   [prefab_id |-> "p1", version |-> "v1", function_name |-> "export",
    inputs |-> NoInputs]}

\* What the Knative service does with a POST.
Downstream == {"ok", "status_error", "timeout", "error"}

\* The body of a 2xx downstream response, as (field, value) pairs.
KnativeOutput(function_name) ==
  IF function_name \in {"convert", "export"} THEN {<<"out", "s3://out">>}
  ELSE {<<"temperature", "21">>}

\* Required positional parameters of SpecCacheService.get_spec and
\* VaultService.get_secret, and the arguments run.py passes to them.
GetSpecParams == 3
RunGetSpecArgs == 2
GetSecretParams == 4
RunGetSecretArgs == 3

\* Python binds a call before the callee runs; it raises TypeError unless
\* every parameter without a default receives an argument.
Binds(nargs, nparams) == nargs = nparams

SUCCESS == "SUCCESS"
FAILED == "FAILED"

\* for func in spec.get("functions", []): first function of that name.
FindFunction(spec, function_name) ==
  LET fs == SpecFunctions(spec)
      hits == {i \in 1..Len(fs) : fs[i].name = function_name}
  IN IF hits = {} THEN <<>>
     ELSE <<fs[CHOOSE i \in hits : \A j \in hits : i <= j]>>

\* type_check_map: the Python types accepted for each declared type
\* (bool is a subclass of int).
TypeCheckMap ==
  [string |-> {"str"}, number |-> {"int", "float", "bool"},
   integer |-> {"int", "bool"}, boolean |-> {"bool"},
   array |-> {"list"}, object |-> {"dict"}]

\* TRUE when validate_inputs returns, FALSE when it raises 422.
validate_inputs(inputs, function_def) ==
  \A i \in 1..Len(function_def.parameters) :
    LET param == function_def.parameters[i]
    IN /\ ~(param.required /\ param.name \notin DOMAIN inputs)
       /\ (param.name \in DOMAIN inputs /\ param.type \in DOMAIN TypeCheckMap)
            => inputs[param.name].t \in TypeCheckMap[param.type]

\* TRUE when check_input_file_permissions returns, FALSE when it raises 403.
check_input_file_permissions(inputs, function_def, user_id, a) ==
  \A i \in 1..Len(function_def.parameters) :
    LET param == function_def.parameters[i]
    IN (param.type = "InputFile" /\ param.name \in DOMAIN inputs)
         => can_read(a, user_id, inputs[param.name].v)

SecretsOut(kind, code, ret, vlt) ==
  [kind |-> kind, code |-> code, ret |-> ret, vault |-> vlt]

\* resolve_secrets from the i-th declared secret on; resolved is the dict
\* built so far, as (name, value) pairs.
RECURSIVE resolve_secrets_from(_, _, _, _, _, _)
resolve_secrets_from(i, resolved, user_id, prefab_id, secrets, vlt) ==
  IF i > Len(secrets) THEN SecretsOut("ok", "200", resolved, vlt)
  ELSE IF ~Binds(RunGetSecretArgs, GetSecretParams)
  THEN SecretsOut("exc", "TypeError", resolved, vlt)
  ELSE LET secret == secrets[i]
           g == get_secret(vlt, <<user_id, prefab_id, secret.name>>)
       IN IF g.ret = None /\ secret.required
          THEN SecretsOut("http", "400", resolved, g.vault)
          ELSE resolve_secrets_from(
                 i + 1,
                 IF Truthy(g.ret) THEN resolved \cup {<<secret.name, g.ret>>}
                 ELSE resolved,
                 user_id, prefab_id, secrets, g.vault)

resolve_secrets(user_id, prefab_id, function_def, vlt) ==
  resolve_secrets_from(1, {}, user_id, prefab_id, function_def.secrets, vlt)

\* handle_output_files: ownership of every OutputFile field present in output.
handle_output_files(output, function_def, user_id, a) ==
  [a EXCEPT ![user_id] =
     @ \cup {o[2] : o \in {p \in output : p[1] \in function_def.returns}}]

\* The outcome of one pass through the try block: kind is "ok" (the block
\* ran to its end), "http" (an HTTPException with status `code` was raised)
\* or "exc" (another exception of type `code` was raised); sent holds the
\* downstream request if one was posted.
RunOut(kind, code, output, t1, t2, vlt, a, sent) ==
  [kind |-> kind, code |-> code, output |-> output,
   t1 |-> t1, t2 |-> t2, vault |-> vlt, acl |-> a, sent |-> sent]

\* A pass that grants the caller the unit's output file before step 1 runs.
ProcessCallGrantEarly(call, user_id, t1, t2, vlt, a, D, F) ==
  RunOut("exc", "TypeError", {}, t1, t2, vlt,
         grant_ownership(a, user_id, "s3://out"), <<>>)

\* Steps 1 to 7 for one call; D is the downstream's behaviour, F the fault
\* points of get_spec.
ProcessCall(call, user_id, t1, t2, vlt, a, D, F) ==
  IF ~Binds(RunGetSpecArgs, GetSpecParams)
  THEN RunOut("exc", "TypeError", {}, t1, t2, vlt, a, <<>>)
  ELSE
    LET g == get_spec(t1, t2, <<call.prefab_id, call.version>>, F)
        function_def == IF g.ret = None THEN <<>>
                        ELSE FindFunction(g.ret, call.function_name)
    IN IF g.ret = None \/ function_def = <<>>
       THEN RunOut("http", "404", {}, g.t1, g.t2, vlt, a, <<>>)
       ELSE IF ~validate_inputs(call.inputs, function_def[1])
       THEN RunOut("http", "422", {}, g.t1, g.t2, vlt, a, <<>>)
       ELSE IF ~check_input_file_permissions(call.inputs, function_def[1], user_id, a)
       THEN RunOut("http", "403", {}, g.t1, g.t2, vlt, a, <<>>)
       ELSE
         LET s == resolve_secrets(user_id, call.prefab_id, function_def[1], vlt)
             downstream_payload ==
               [function_name |-> call.function_name,
                inputs |-> call.inputs, secrets |-> s.ret]
             output == KnativeOutput(call.function_name)
         IN IF s.kind # "ok"
            THEN RunOut(s.kind, s.code, {}, g.t1, g.t2, s.vault, a, <<>>)
            ELSE IF D # "ok"
            THEN RunOut("http", "503", {}, g.t1, g.t2, s.vault, a,
                        <<downstream_payload>>)
            ELSE RunOut("ok", "200", output, g.t1, g.t2, s.vault,
                        handle_output_files(output, function_def[1], user_id, a),
                        <<downstream_payload>>)

\* results.append(CallResult(status=SUCCESS, output=output))
OnSuccess(results, output) ==
  Append(results, [status |-> SUCCESS, output |-> <<output>>, error |-> None])

\* An except branch that logs the error and appends nothing.
OnExceptionDrop(results, type) == results

\* except Exception: results.append(CallResult(status=FAILED, error={type}))
OnException(results, type) ==
  Append(results, [status |-> FAILED, output |-> <<>>, error |-> type])

\* A status computed with any() in place of all().
overall_status_any(results) ==
  IF \E i \in 1..Len(results) : results[i].status = SUCCESS
  THEN "COMPLETED" ELSE "PARTIAL_SUCCESS"

overall_status(results) ==
  IF \A i \in 1..Len(results) : results[i].status = SUCCESS
  THEN "COMPLETED" ELSE "PARTIAL_SUCCESS"

\* The request state: pc is "idle", "loop" (inside the for loop, about to
\* process calls[idx]), "done" (the batch envelope was returned) or "aborted"
\* (an exception left the handler).  origin[i] is the index of the call whose
\* pass appended results[i]; sent lists the downstream requests posted.
IdleRun ==
  [pc |-> "idle", user |-> None, calls |-> <<>>, idx |-> 0, results |-> <<>>,
   origin |-> <<>>, sent |-> <<>>, http |-> None, status |-> None]

\* One iteration of the for loop, given the outcome r of its try block.
RunStep(rn, r) ==
  LET sent == rn.sent \o r.sent
  IN IF r.kind = "http"
     THEN [rn EXCEPT !.pc = "aborted", !.sent = sent, !.http = r.code]
     ELSE LET results == IF r.kind = "ok" THEN OnSuccess(rn.results, r.output)
                         ELSE OnException(rn.results, r.code)
          IN [rn EXCEPT !.results = results,
                        !.origin = IF Len(results) > Len(rn.results)
                                   THEN Append(@, rn.idx) ELSE @,
                        !.sent = sent,
                        !.idx = @ + 1]

\* ------------------------------------------------------------ authentication
\* A bearer token as jwt.decode sees it: the signature under jwt_secret_key,
\* the exp and aud claims, and sub (None when the claim is missing).
Tokens ==
  [signature : {"valid", "invalid"}, exp : {"future", "past"},
   aud : {"prefab-gateway", "other"}, sub : Users \cup {None}]

\* The Authorization header: <<>> when there is none, else <<token>>.
Credentials == {<<>>} \cup {<<t>> : t \in Tokens}

\* jwt.decode(token, key, algorithms, audience): TRUE when it returns the
\* payload, FALSE when it raises JWTError.
JwtDecodes(token) ==
  /\ token.signature = "valid"
  /\ token.exp = "future"
  /\ token.aud = "prefab-gateway"

AuthOut(user, error) == [user |-> user, error |-> error]

\* HTTPBearer rejects a request without credentials; get_current_user raises
\* 401 when the token does not decode or carries no sub.
get_current_user(credentials) ==
  IF credentials = <<>> THEN AuthOut(None, "not_authenticated")
  ELSE IF ~JwtDecodes(credentials[1]) THEN AuthOut(None, "401")
  ELSE IF credentials[1].sub = None THEN AuthOut(None, "401")
  ELSE AuthOut(credentials[1].sub, None)

\* The routes of the application; auth is TRUE where the handler declares
\* Depends(get_current_user).
Routes ==
  {[route |-> "POST /v1/run", auth |-> TRUE],
   [route |-> "POST /v1/secrets", auth |-> TRUE],
   [route |-> "GET /v1/secrets", auth |-> TRUE],
   [route |-> "GET /v1/secrets/{prefab_id}", auth |-> TRUE],
   [route |-> "DELETE /v1/secrets/{prefab_id}/{secret_name}", auth |-> TRUE],
   [route |-> "GET /v1/prefabs", auth |-> TRUE],
   [route |-> "GET /v1/prefabs/{prefab_id}/{version}/spec", auth |-> TRUE],
   [route |-> "POST /v1/prefabs/{prefab_id}/{version}/spec", auth |-> TRUE],
   [route |-> "POST /webhooks/factory", auth |-> FALSE],
   [route |-> "GET /webhooks/events/{event_id}", auth |-> FALSE],
   [route |-> "GET /", auth |-> FALSE],
   [route |-> "GET /health", auth |-> FALSE]}

\* Dependency resolution for one request: the handler body is entered only
\* when every dependency returned.
Dispatch(r, credentials) ==
  IF r.auth
  THEN LET u == get_current_user(credentials)
       IN [entered |-> u.error = None, user |-> u.user, error |-> u.error]
  ELSE [entered |-> TRUE, user |-> None, error |-> None]

\* ------------------------------------------------------ file handler service
JobIds == {"j1", "j2"}

\* max_age_seconds offered to start_cleanup_daemon, in clock ticks.
MaxAges == {0, 1}

WorkspaceRoot == "/mnt/prefab-workspace"

\* FileHandlerService.__init__: workspace_root is None when the PVC path does
\* not exist.  dirs[j] is <<>> or <<mtime>> of the top-level directory j.
\* task is the cleanup coroutine: "none" (not created), "sleeping",
\* "sweeping", "returned" or "cancelled"; last is how its latest sweep ended.
FileHandlerService(root_exists) ==
  [workspace_root |-> IF root_exists THEN WorkspaceRoot ELSE None,
   dirs |-> [j \in JobIds |-> <<>>],
   task |-> "none",
   max_age |-> 0,
   last |-> None]

\* mkdir(parents=True, exist_ok=True): an existing directory keeps its mtime.
create_workspace(w, job_id) ==
  IF w.workspace_root = None
  THEN [ws |-> w, ret |-> "RuntimeError"]
  ELSE [ws |-> [w EXCEPT !.dirs[job_id] = IF @ = <<>> THEN <<now>> ELSE @],
        ret |-> job_id]

\* cleanup_workspace: rmtree, an error is logged and dropped.
cleanup_workspace(w, job_id, rmtree_fails) ==
  IF w.dirs[job_id] = <<>> \/ rmtree_fails THEN w
  ELSE [w EXCEPT !.dirs[job_id] = <<>>]

\* Remote objects named by a URL with a bucket and a key; any other value
\* makes _download_from_s3 raise ValueError.
S3Objects == {"s3://bucket/in.csv"}

\* workspace / f"input_{param_name}{file_ext}"
LocalPath(job_id, param_name) ==
  IF job_id = "j1" THEN "/mnt/prefab-workspace/j1/input_file.csv"
  ELSE "/mnt/prefab-workspace/j2/input_file.csv"

StageOut(w, kind, ret) == [ws |-> w, kind |-> kind, ret |-> ret]

\* download_input_files from the i-th declared parameter on.  A download
\* writes into the job directory, which sets its mtime; s3_fails is TRUE when
\* the object store refuses the download.
RECURSIVE DownloadFrom(_, _, _, _, _, _, _)
DownloadFrom(i, w, parameters, inputs, processed_inputs, job_id, s3_fails) ==
  IF i > Len(parameters) THEN StageOut(w, "ok", processed_inputs)
  ELSE LET param == parameters[i]
       IN IF param.type = "InputFile" /\ param.name \in DOMAIN inputs
          THEN LET s3_url == inputs[param.name]
               IN IF s3_url.t # "str" THEN StageOut(w, "AttributeError", inputs)
                  ELSE IF s3_url.v \notin S3Objects
                  THEN StageOut(w, "ValueError", inputs)
                  ELSE IF s3_fails THEN StageOut(w, "RuntimeError", inputs)
                  ELSE IF w.dirs[job_id] = <<>>
                  THEN StageOut(w, "FileNotFoundError", inputs)
                  ELSE DownloadFrom(
                         i + 1, [w EXCEPT !.dirs[job_id] = <<now>>], parameters,
                         inputs,
                         [processed_inputs EXCEPT
                            ![param.name] = PyStr(LocalPath(job_id, param.name))],
                         job_id, s3_fails)
          ELSE DownloadFrom(i + 1, w, parameters, inputs, processed_inputs,
                            job_id, s3_fails)

download_input_files(w, function_def, inputs, job_id, s3_fails) ==
  IF w.workspace_root = None THEN StageOut(w, "ok", inputs)
  ELSE DownloadFrom(1, w, function_def.parameters, inputs, inputs, job_id,
                    s3_fails)

\* s3://{bucket}/outputs/{request_id}/{uuid}{ext}
UploadedUrl == "s3://prefab-outputs/outputs/r1/u1.csv"

\* upload_output_files: output is the set of (field, value) pairs; file_exists
\* is TRUE when the unit left the files it names; nothing in the workspace is
\* written.
upload_output_files(w, function_def, output, file_exists, s3_fails) ==
  IF w.workspace_root = None THEN StageOut(w, "ok", output)
  ELSE LET files == {o \in output : o[1] \in function_def.returns}
       IN IF files = {} THEN StageOut(w, "ok", output)
          ELSE IF ~file_exists THEN StageOut(w, "FileNotFoundError", output)
          ELSE IF s3_fails THEN StageOut(w, "RuntimeError", output)
          ELSE StageOut(w, "ok",
                        (output \ files) \cup {<<o[1], UploadedUrl>> : o \in files})

\* Fault points of one sweep: root is "ok", "gone" (exists() is false) or
\* "raise" (exists() raises OSError); rmtree is the set of directories whose
\* stat() or rmtree() raises; disk is TRUE when disk_usage() raises.
SweepFaults ==
  [root : {"ok", "gone", "raise"}, rmtree : SUBSET JobIds, disk : BOOLEAN]


\* iterdir() yields the entries in no stated order.
IterDir(dirs) ==
  LET present == {j \in JobIds : dirs[j] # <<>>}
  IN {o \in [1..Cardinality(present) -> present] :
        \A a, b \in DOMAIN o : a # b => o[a] # o[b]}

\* The for loop of _run_cleanup from the i-th entry on: "ok" when the loop
\* ran to its end, "caught" when an error left it for the except branch.
RECURSIVE SweepFrom(_, _, _, _, _)
SweepFrom(dirs, order, i, cutoff_time, rmtree_fails) ==
  IF i > Len(order) THEN [dirs |-> dirs, kind |-> "ok"]
  ELSE LET job_dir == order[i]
           mtime == dirs[job_dir][1]
       IN IF mtime < cutoff_time
          THEN IF job_dir \in rmtree_fails
               THEN [dirs |-> dirs, kind |-> "caught"]
               ELSE SweepFrom([dirs EXCEPT ![job_dir] = <<>>], order, i + 1,
                              cutoff_time, rmtree_fails)
          ELSE SweepFrom(dirs, order, i + 1, cutoff_time, rmtree_fails)

\* _run_cleanup: kind is "return" (nothing to do), "raise" (an error left the
\* method), "ok" or "caught".
_run_cleanup(w, max_age_seconds, order, F) ==
  IF F.root = "raise" THEN [ws |-> w, kind |-> "raise"]
  ELSE IF w.workspace_root = None \/ F.root = "gone"
  THEN [ws |-> w, kind |-> "return"]
  ELSE LET cutoff_time == now - max_age_seconds
           r == SweepFrom(w.dirs, order, 1, cutoff_time, F.rmtree)
       IN [ws |-> [w EXCEPT !.dirs = r.dirs],
           kind |-> IF r.kind = "ok" /\ F.disk THEN "caught" ELSE r.kind]

\* start_cleanup_daemon up to its loop.
start_cleanup_daemon(w, max_age_seconds) ==
  IF w.workspace_root = None
  THEN [w EXCEPT !.task = "returned"]
  ELSE [w EXCEPT !.task = "sleeping", !.max_age = max_age_seconds]

\* A loop without the except branch: the error ends the coroutine.
OnSweepErrorStop(w) == [w EXCEPT !.task = "returned", !.last = "error"]

\* except Exception in the daemon loop: log, go round again.
OnSweepError(w) == [w EXCEPT !.task = "sleeping", !.last = "error"]

\* One pass of the loop body after sleep() returned.
DaemonPass(w, order, F) ==
  LET r == _run_cleanup(w, w.max_age, order, F)
  IN IF r.kind = "raise" THEN OnSweepError(r.ws)
     ELSE [r.ws EXCEPT !.task = "sleeping", !.last = r.kind]

\* Nothing has been asked yet.
NoResult == [fn |-> None]

\* ------------------------------------------------------ concurrent requests
\* Coroutines (or gateway replicas) that serve requests side by side; each
\* runs from one await to the next without interruption.
Workers == {"w1", "w2"}

\* A worker's request: op names the service method, pc the await it is
\* suspended at, local the value it holds in a local variable.
IdleWorker == [op |-> "idle", pc |-> "idle", local |-> None]

\* ------------------------------------------------------------------ actions
\* The services as their constructors leave them.
InitServices ==
  /\ use_memory \in BOOLEAN
  /\ tier1 = [c \in CacheKeys |-> <<>>]
  /\ tier2 = [k \in Keys |-> <<>>]
  /\ events = [e \in EventIds |-> <<>>]
  /\ now = 1
  /\ vault = [vk \in VaultKeys |-> <<>>]
  /\ acl = [u \in Users |-> {}]
  /\ run = IdleRun
  /\ res = NoResult
  /\ inflight = [w \in Workers |-> IdleWorker]

\* The gateway with its workspace volume mounted.
Init ==
  /\ InitServices
  /\ ws = FileHandlerService(TRUE)

\* The gateway with or without its workspace volume.
InitWorkspace ==
  /\ InitServices
  /\ ws \in {FileHandlerService(root_exists) : root_exists \in BOOLEAN}

Tick ==
  /\ now < MaxClock
  /\ now' = now + 1
  /\ UNCHANGED <<use_memory, tier1, tier2, events, vault, acl, run, ws, res, inflight>>

\* A Redis entry reaches its TTL (setex with _redis_ttl).
Tier1Expire ==
  /\ ~use_memory
  /\ \E c \in CacheKeys :
       /\ tier1[c] # <<>>
       /\ tier1' = [tier1 EXCEPT ![c] = <<>>]
  /\ UNCHANGED <<use_memory, tier2, events, now, vault, acl, run, ws, res, inflight>>

\* The fault points that can raise in the current mode: the in-process cache
\* never raises.
L1Faults(S) == IF use_memory THEN {} ELSE S

GetFaultSets == SUBSET ({"db"} \cup L1Faults({"l1_get", "l1_set"}))
SetFaultSets == SUBSET ({"db"} \cup L1Faults({"l1_set"}))
DeleteFaultSets == SUBSET ({"db"} \cup L1Faults({"l1_del"}))

\* GET /v1/prefabs/{prefab_id}/{version}/spec
GetSpec(KS) ==
  \E k \in KS, F \in GetFaultSets :
    LET r == get_spec(tier1, tier2, k, F)
    IN /\ r.t2[k] # <<>> => r.t2[k][1].call_count <= MaxCount
       /\ tier1' = r.t1
       /\ tier2' = r.t2
       /\ UNCHANGED <<use_memory, events, now, vault, acl, run, ws, res, inflight>>

\* POST /v1/prefabs/{prefab_id}/{version}/spec
SetSpec(KS) ==
  \E k \in KS, spec \in SpecIds, F \in SetFaultSets :
    LET r == set_spec(tier1, tier2, k, spec, None, PENDING, F)
    IN /\ tier1' = r.t1
       /\ tier2' = r.t2
       /\ UNCHANGED <<use_memory, events, now, vault, acl, run, ws, res, inflight>>

\* SpecCacheService.delete_spec, the service's delete operation.
DeleteSpec(KS) ==
  \E k \in KS, F \in DeleteFaultSets :
    LET r == delete_spec(tier1, tier2, k, F)
    IN /\ tier1' = r.t1
       /\ tier2' = r.t2
       /\ UNCHANGED <<use_memory, events, now, vault, acl, run, ws, res, inflight>>

WebhookFaultSets ==
  {{}, {"insert"}, {"db"}, {"db", "rollback"}, {"mark"}, {"mark", "record"}}
  \cup IF use_memory THEN {} ELSE {{"l1_del"}}

\* Payloads naming a key of KS; knative_service_url accompanies
\* deployment.success only.
ValidPayloads(KS) ==
  {[event_id |-> e, event_type |-> t, prefab_id |-> k[1], version |-> k[2],
    knative_service_url |-> u] :
     e \in EventIds, t \in EventTypes, k \in KS, u \in Urls \cup {None}}

Payloads(KS) ==
  {p \in ValidPayloads(KS) :
     p.knative_service_url # None => p.event_type = "deployment.success"}
  \cup
  {[p EXCEPT ![f] = None] :
     p \in {q \in ValidPayloads(KS) :
              q.knative_service_url = None /\ q.event_id = "e1"
              /\ q.event_type = "deployment.failed"},
     f \in {"event_id", "event_type", "prefab_id", "version"}}

\* POST /webhooks/factory
Webhook(PS) ==
  \E payload \in PS, F \in WebhookFaultSets :
    LET r == receive_factory_webhook(tier1, tier2, events, payload, F)
    IN /\ \A e \in EventIds : r.ev[e] # <<>> => r.ev[e][1].retry_count <= MaxRetry
       /\ tier1' = r.t1
       /\ tier2' = r.t2
       /\ events' = r.ev
       /\ UNCHANGED <<use_memory, now, vault, acl, run, ws, res, inflight>>

\* The spec cache on its own: every key, no webhook.
NextCache ==
  \/ Tick
  \/ Tier1Expire
  \/ GetSpec(Keys)
  \/ SetSpec(Keys)
  \/ DeleteSpec(Keys)

SpecCache == Init /\ [][NextCache]_vars

\* The webhook receiver and the publish endpoint on one key.
WebhookKeys == {<<"p1", "v1">>}

WebhookPayloads == Payloads(WebhookKeys)

NextWebhook ==
  \/ Tick
  \/ SetSpec(WebhookKeys)
  \/ Webhook(WebhookPayloads)

SpecWebhook == Init /\ [][NextWebhook]_vars

\* POST /v1/secrets
StoreSecret(VKS) ==
  \E vk \in VKS, secret_value \in SecretValues :
    /\ vault' = store_secret(vault, vk, secret_value)
    /\ UNCHANGED <<use_memory, tier1, tier2, events, now, acl, run, ws, res, inflight>>

RunBatches == UNION {[1..n -> CallTemplates] : n \in 0..MaxCalls}

\* POST /v1/run arrives with an authenticated user and a batch.
RunStart ==
  /\ run.pc = "idle"
  /\ \E user_id \in Users, calls \in RunBatches :
       run' = [IdleRun EXCEPT !.pc = "loop", !.user = user_id,
                              !.calls = calls, !.idx = 1]
  /\ UNCHANGED <<use_memory, tier1, tier2, events, now, vault, acl, ws, res, inflight>>

\* One iteration of the for loop.
RunCall ==
  /\ run.pc = "loop"
  /\ run.idx <= Len(run.calls)
  /\ \E D \in Downstream, F \in SUBSET {"db"} :
       LET r == ProcessCall(run.calls[run.idx], run.user, tier1, tier2,
                            vault, acl, D, F)
       IN /\ run' = RunStep(run, r)
          /\ tier1' = r.t1
          /\ tier2' = r.t2
          /\ vault' = r.vault
          /\ acl' = r.acl
  /\ UNCHANGED <<use_memory, events, now, ws, res, inflight>>

\* The loop is exhausted: the envelope is built and returned.
RunFinish ==
  /\ run.pc = "loop"
  /\ run.idx > Len(run.calls)
  /\ run' = [run EXCEPT !.pc = "done", !.http = "200",
                        !.status = overall_status(run.results)]
  /\ UNCHANGED <<use_memory, tier1, tier2, events, now, vault, acl, ws, res, inflight>>

\* The response has been delivered; the endpoint takes the next request.
RunReturn ==
  /\ run.pc \in {"done", "aborted"}
  /\ run' = IdleRun
  /\ UNCHANGED <<use_memory, tier1, tier2, events, now, vault, acl, ws, res, inflight>>

\* The call endpoint with the publish and secret endpoints beside it.
RunKeys == {<<"p1", "v1">>}
RunVaultKeys == {<<"u1", "p1", "API_KEY">>}

NextRun ==
  \/ RunStart
  \/ RunCall
  \/ RunFinish
  \/ RunReturn
  \/ SetSpec(RunKeys)
  \/ StoreSecret(RunVaultKeys)

SpecRun == Init /\ [][NextRun]_vars

\* SpecCacheService.update_deployment_status, the service's status update.
UpdateDeploymentStatus(KS) ==
  \E k \in KS, status \in {DEPLOYED}, F \in SUBSET {"db"} :
    LET r == update_deployment_status(tier1, tier2, k, status, None, F)
    IN /\ tier1' = r.t1
       /\ tier2' = r.t2
       /\ UNCHANGED <<use_memory, events, now, vault, acl, run, ws, res, inflight>>

\* The call endpoint beside every operation of the spec cache on its key.
NextRunCache ==
  \/ RunStart
  \/ RunCall
  \/ RunFinish
  \/ RunReturn
  \/ SetSpec(RunKeys)
  \/ GetSpec(RunKeys)
  \/ DeleteSpec(RunKeys)
  \/ UpdateDeploymentStatus(RunKeys)
  \/ Tier1Expire

SpecRunCache == Init /\ [][NextRunCache]_vars

\* DELETE /v1/secrets/{prefab_id}/{secret_name}
DeleteSecret(VKS) ==
  \E vk \in VKS :
    /\ vault' = delete_secret(vault, vk).vault
    /\ UNCHANGED <<use_memory, tier1, tier2, events, now, acl, run, ws, res, inflight>>

\* VaultService.get_secret, the read the call pipeline makes per declared
\* secret.
GetSecret(VKS) ==
  \E vk \in VKS :
    /\ vault' = get_secret(vault, vk).vault
    /\ UNCHANGED <<use_memory, tier1, tier2, events, now, acl, run, ws, res, inflight>>

\* The vault on its own: two users, one of them with secrets for two units.
VaultOpKeys == {<<"u1", "p1", "API_KEY">>, <<"u1", "p2", "API_KEY">>,
                <<"u2", "p1", "API_KEY">>}

NextVault ==
  \/ StoreSecret(VaultOpKeys)
  \/ DeleteSecret(VaultOpKeys)
  \/ GetSecret(VaultOpKeys)

SpecVault == Init /\ [][NextVault]_vars

\* One user's secrets for two units while the clock runs.
VaultClockKeys == {<<"u1", "p1", "API_KEY">>, <<"u1", "p2", "API_KEY">>}

NextVaultClock ==
  \/ Tick
  \/ StoreSecret(VaultClockKeys)
  \/ DeleteSecret(VaultClockKeys)
  \/ GetSecret(VaultClockKeys)

SpecVaultClock == Init /\ [][NextVaultClock]_vars

\* AccessControlService.grant_ownership
GrantOwnership ==
  \E user_id \in Users, s3_uri \in Files :
    /\ acl' = grant_ownership(acl, user_id, s3_uri)
    /\ UNCHANGED <<use_memory, tier1, tier2, events, now, vault, run, ws, res, inflight>>

\* AccessControlService.revoke_access
RevokeAccess ==
  \E user_id \in Users, s3_uri \in Files :
    /\ acl' = revoke_access(acl, user_id, s3_uri).acl
    /\ UNCHANGED <<use_memory, tier1, tier2, events, now, vault, run, ws, res, inflight>>

\* The access-control service on its own.
NextAcl ==
  \/ GrantOwnership
  \/ RevokeAccess

SpecAcl == Init /\ [][NextAcl]_vars

\* FileHandlerService.create_workspace
CreateWorkspace ==
  \E job_id \in JobIds :
    LET r == create_workspace(ws, job_id)
    IN /\ ws' = r.ws
       /\ res' = [fn |-> "create_workspace", job_id |-> job_id, ret |-> r.ret]
       /\ UNCHANGED <<use_memory, tier1, tier2, events, now, vault, acl, run, inflight>>

\* Function descriptors and inputs offered to the staging operations.
StageFunctions == {SpecFunctions(spec)[1] : spec \in SpecIds}

StageInputs ==
  {[n \in {"file"} |-> PyStr(u)] : u \in S3Objects \cup {"s3://in"}}
    \cup {[n \in {"city"} |-> PyStr("London")]}

StageOutputs ==
  {{<<"out", "/mnt/prefab-workspace/j1/out.csv">>}, {<<"temperature", "21">>}}

\* FileHandlerService.download_input_files
DownloadInputFiles ==
  \E job_id \in JobIds, function_def \in StageFunctions, inputs \in StageInputs,
     s3_fails \in BOOLEAN :
    LET r == download_input_files(ws, function_def, inputs, job_id, s3_fails)
    IN /\ ws' = r.ws
       /\ res' = [fn |-> "download_input_files", inputs |-> inputs,
                  kind |-> r.kind, processed_inputs |-> r.ret]
       /\ UNCHANGED <<use_memory, tier1, tier2, events, now, vault, acl, run, inflight>>

\* FileHandlerService.upload_output_files
UploadOutputFiles ==
  \E function_def \in StageFunctions, output \in StageOutputs,
     file_exists \in BOOLEAN, s3_fails \in BOOLEAN :
    LET r == upload_output_files(ws, function_def, output, file_exists, s3_fails)
    IN /\ res' = [fn |-> "upload_output_files", output |-> output,
                  kind |-> r.kind, processed_output |-> r.ret]
       /\ UNCHANGED <<use_memory, tier1, tier2, events, now, vault, acl, run, ws, inflight>>

\* FileHandlerService.cleanup_workspace
CleanupWorkspace ==
  \E job_id \in JobIds, rmtree_fails \in BOOLEAN :
    /\ ws' = cleanup_workspace(ws, job_id, rmtree_fails)
    /\ UNCHANGED <<use_memory, tier1, tier2, events, now, vault, acl, run, res, inflight>>

\* lifespan startup: the cleanup task is created and runs to its first await.
DaemonStart ==
  /\ ws.task = "none"
  /\ \E max_age_seconds \in MaxAges :
       ws' = start_cleanup_daemon(ws, max_age_seconds)
  /\ UNCHANGED <<use_memory, tier1, tier2, events, now, vault, acl, run, res, inflight>>

\* asyncio.sleep(interval_seconds) returns.
DaemonWake ==
  /\ ws.task = "sleeping"
  /\ ws' = [ws EXCEPT !.task = "sweeping"]
  /\ UNCHANGED <<use_memory, tier1, tier2, events, now, vault, acl, run, res, inflight>>

\* The rest of the loop body: _run_cleanup and the except branch.
DaemonSweep ==
  /\ ws.task = "sweeping"
  /\ \E order \in IterDir(ws.dirs), F \in SweepFaults :
       ws' = DaemonPass(ws, order, F)
  /\ UNCHANGED <<use_memory, tier1, tier2, events, now, vault, acl, run, res, inflight>>

\* lifespan shutdown: cleanup_task.cancel()
DaemonCancel ==
  /\ ws.task \in {"sleeping", "sweeping"}
  /\ ws' = [ws EXCEPT !.task = "cancelled"]
  /\ UNCHANGED <<use_memory, tier1, tier2, events, now, vault, acl, run, res, inflight>>

\* The file handler and its cleanup daemon.
NextWorkspace ==
  \/ Tick
  \/ CreateWorkspace
  \/ DownloadInputFiles
  \/ UploadOutputFiles
  \/ CleanupWorkspace
  \/ DaemonStart
  \/ DaemonWake
  \/ DaemonSweep
  \/ DaemonCancel

SpecWorkspace == InitWorkspace /\ [][NextWorkspace]_vars

\* The event loop runs a task that is ready: a sleep that is over returns,
\* and the loop body after it runs to the next sleep.
SpecDaemon ==
  /\ InitWorkspace
  /\ [][NextWorkspace]_vars
  /\ WF_vars(DaemonWake)
  /\ WF_vars(DaemonSweep)

\* A request reaches the application and its dependencies are resolved.
HttpRequest ==
  \E r \in Routes, credentials \in Credentials :
    LET d == Dispatch(r, credentials)
    IN /\ res' = [fn |-> "request", route |-> r.route,
                  credentials |-> credentials, entered |-> d.entered,
                  user |-> d.user, error |-> d.error]
       /\ UNCHANGED <<use_memory, tier1, tier2, events, now, vault, acl, run, ws, inflight>>

NextAuth == HttpRequest

SpecAuth == Init /\ [][NextAuth]_vars

\* The signatures a sender may attach to a payload: none, the MAC under the
\* shared secret, or a MAC under another key.
Signatures(payload) == {<<>>, Hmac("whsec", payload), Hmac("other", payload)}

SignedPayloads ==
  {p \in WebhookPayloads :
     /\ HasRequiredFields(p)
     /\ p.event_type \in {"deployment.success", "deployment.failed"}}

\* POST /webhooks/factory with its header, under a deployment that may have
\* set WEBHOOK_SECRET.
SignedWebhook ==
  \E env_secret \in WebhookSecrets, payload \in SignedPayloads :
    \E x_webhook_signature \in Signatures(payload) :
      LET r == factory_webhook(env_secret, x_webhook_signature, tier1, tier2,
                               events, payload, {})
      IN /\ tier1' = r.t1
         /\ tier2' = r.t2
         /\ events' = r.ev
         /\ res' = [fn |-> "factory_webhook", env_secret |-> env_secret,
                    signed |-> x_webhook_signature = Hmac("whsec", payload),
                    ret |-> r.ret]
         /\ UNCHANGED <<use_memory, now, vault, acl, run, ws, inflight>>

NextWebhookAuth ==
  \/ SetSpec(WebhookKeys)
  \/ SignedWebhook

SpecWebhookAuth == Init /\ [][NextWebhookAuth]_vars

\* The Python types of JSON values.
PyTypes == {"str", "int", "float", "bool", "list", "dict", "NoneType"}

DeclaredTypes ==
  {"string", "number", "integer", "boolean", "array", "object", "InputFile"}

\* Function descriptors with one declared parameter, and inputs that may
\* hold it and may hold an undeclared key.
ValidateFunctions ==
  {[name |-> "f",
    parameters |-> <<[name |-> "a", type |-> t, required |-> q]>>,
    secrets |-> <<>>, returns |-> {}] : t \in DeclaredTypes, q \in BOOLEAN}

ValidateInputs ==
  {[k \in D |-> [t |-> IF k = "a" THEN ty ELSE "str", v |-> "v"]] :
     D \in SUBSET {"a", "x"}, ty \in PyTypes}

\* validate_inputs applied to one descriptor and one inputs object.
ValidateCall ==
  \E function_def \in ValidateFunctions, inputs \in ValidateInputs :
    /\ res' = [fn |-> "validate_inputs", function_def |-> function_def,
               inputs |-> inputs,
               raised |-> ~validate_inputs(inputs, function_def)]
    /\ UNCHANGED <<use_memory, tier1, tier2, events, now, vault, acl, run, ws, inflight>>

NextValidate == ValidateCall

SpecValidate == Init /\ [][NextValidate]_vars

\* Function descriptors that declare no secret, a required one or an
\* optional one.
SecretFunctions ==
  {[name |-> "f", parameters |-> <<>>, secrets |-> ss, returns |-> {}] :
     ss \in {<<>>} \cup {<<[name |-> "API_KEY", required |-> q]>> : q \in BOOLEAN}}

\* resolve_secrets applied for one user, unit and descriptor.
ResolveSecrets ==
  \E user_id \in Users, prefab_id \in SecretPrefabs, function_def \in SecretFunctions :
    LET r == resolve_secrets(user_id, prefab_id, function_def, vault)
    IN /\ vault' = r.vault
       /\ res' = [fn |-> "resolve_secrets", user_id |-> user_id,
                  prefab_id |-> prefab_id, function_def |-> function_def,
                  kind |-> r.kind, code |-> r.code, resolved |-> r.ret]
       /\ UNCHANGED <<use_memory, tier1, tier2, events, now, acl, run, ws, inflight>>

NextSecrets ==
  \/ StoreSecret(VaultClockKeys)
  \/ DeleteSecret(VaultClockKeys)
  \/ ResolveSecrets

SpecSecrets == Init /\ [][NextSecrets]_vars

\* The key the concurrent cache operations work on.
RaceKey == <<"p1", "v1">>

\* A worker takes a publish, a delete or a get for the key.
RaceBegin(w) ==
  /\ inflight[w].op = "idle"
  /\ \E op \in {"set_spec", "delete_spec", "get_spec"},
        spec \in SpecIds \cup {None} :
       /\ (op = "set_spec") <=> (spec # None)
       /\ inflight' = [inflight EXCEPT ![w] = [op |-> op, pc |-> "start", local |-> spec]]
  /\ UNCHANGED <<use_memory, tier1, tier2, events, now, vault, acl, run, ws, res>>

\* set_spec up to the return of `await db.commit()`.
SetCommit(w) ==
  /\ inflight[w].op = "set_spec" /\ inflight[w].pc = "start"
  /\ tier2' = [tier2 EXCEPT ![RaceKey] =
                 <<PublishedRow(tier2, RaceKey, inflight[w].local, None, PENDING)>>]
  /\ inflight' = [inflight EXCEPT ![w].pc = "l1"]
  /\ UNCHANGED <<use_memory, tier1, events, now, vault, acl, run, ws, res>>

\* set_spec from there: `await self._set_redis_cache(key, spec)`, return.
SetCache(w) ==
  /\ inflight[w].op = "set_spec" /\ inflight[w].pc = "l1"
  /\ tier1' = _set_redis_cache(tier1, _make_key(RaceKey[1], RaceKey[2]),
                               inflight[w].local, {})
  /\ inflight' = [inflight EXCEPT ![w] = IdleWorker]
  /\ UNCHANGED <<use_memory, tier2, events, now, vault, acl, run, ws, res>>

\* delete_spec up to the return of `await db.commit()`.
DeleteCommit(w) ==
  /\ inflight[w].op = "delete_spec" /\ inflight[w].pc = "start"
  /\ tier2' = [tier2 EXCEPT ![RaceKey] = <<>>]
  /\ inflight' = [inflight EXCEPT ![w].pc = "l1"]
  /\ UNCHANGED <<use_memory, tier1, events, now, vault, acl, run, ws, res>>

\* delete_spec from there: the L1 delete, return.
DeleteCache(w) ==
  /\ inflight[w].op = "delete_spec" /\ inflight[w].pc = "l1"
  /\ tier1' = L1Delete(tier1, _make_key(RaceKey[1], RaceKey[2]), {}).t1
  /\ inflight' = [inflight EXCEPT ![w] = IdleWorker]
  /\ UNCHANGED <<use_memory, tier2, events, now, vault, acl, run, ws, res>>

\* get_spec: the L1 read; a hit returns, a miss goes on to `await
\* db.execute(stmt)`.
GetCacheRead(w) ==
  /\ inflight[w].op = "get_spec" /\ inflight[w].pc = "start"
  /\ inflight' = [inflight EXCEPT ![w] =
       IF L1Read(tier1, _make_key(RaceKey[1], RaceKey[2]), {}) # <<>>
       THEN IdleWorker ELSE [@ EXCEPT !.pc = "l2"]]
  /\ UNCHANGED <<use_memory, tier1, tier2, events, now, vault, acl, run, ws, res>>

\* get_spec: the row is read and the counters are committed; no row returns
\* None.
GetRowRead(w) ==
  /\ inflight[w].op = "get_spec" /\ inflight[w].pc = "l2"
  /\ IF tier2[RaceKey] = <<>>
     THEN /\ inflight' = [inflight EXCEPT ![w] = IdleWorker]
          /\ UNCHANGED tier2
     ELSE /\ tier2[RaceKey][1].call_count < MaxCount
          /\ tier2' = [tier2 EXCEPT ![RaceKey] =
                         <<[tier2[RaceKey][1] EXCEPT !.last_called_at = now,
                                                     !.call_count = @ + 1]>>]
          /\ inflight' = [inflight EXCEPT ![w] =
                            [@ EXCEPT !.pc = "l1",
                                      !.local = tier2[RaceKey][1].spec_json]]
  /\ UNCHANGED <<use_memory, tier1, events, now, vault, acl, run, ws, res>>

\* get_spec: the write-back of the spec it read, return.
GetCacheWrite(w) ==
  /\ inflight[w].op = "get_spec" /\ inflight[w].pc = "l1"
  /\ tier1' = _set_redis_cache(tier1, _make_key(RaceKey[1], RaceKey[2]),
                               inflight[w].local, {})
  /\ inflight' = [inflight EXCEPT ![w] = IdleWorker]
  /\ UNCHANGED <<use_memory, tier2, events, now, vault, acl, run, ws, res>>

\* Publishes, deletes and gets on one key, interleaved at their awaits.
NextRace ==
  \E w \in Workers :
    \/ RaceBegin(w)
    \/ SetCommit(w)
    \/ SetCache(w)
    \/ DeleteCommit(w)
    \/ DeleteCache(w)
    \/ GetCacheRead(w)
    \/ GetRowRead(w)
    \/ GetCacheWrite(w)

SpecRace == Init /\ [][NextRace]_vars

\* The delivery both workers receive: one event, not recorded before.
RaceDelivery ==
  [event_id |-> "e1", event_type |-> "deployment.success",
   prefab_id |-> "p1", version |-> "v1", knative_service_url |-> None]

\* A worker receives the delivery while no row for its event_id exists.
WebhookBegin(w) ==
  /\ inflight[w].op = "idle"
  /\ events[RaceDelivery.event_id] = <<>>
  /\ inflight' = [inflight EXCEPT ![w] =
                    [op |-> "webhook", pc |-> "select", local |-> None]]
  /\ UNCHANGED <<use_memory, tier1, tier2, events, now, vault, acl, run, ws, res>>

\* The idempotency SELECT and the branch on its result.
WebhookSelect(w) ==
  /\ inflight[w].op = "webhook" /\ inflight[w].pc = "select"
  /\ LET existing == events[RaceDelivery.event_id]
     IN inflight' = [inflight EXCEPT ![w].pc =
          IF IsAlreadyProcessed(existing) THEN "already_processed"
          ELSE IF existing # <<>> THEN "process"
          ELSE "insert"]
  /\ UNCHANGED <<use_memory, tier1, tier2, events, now, vault, acl, run, ws, res>>

\* db.add(new_event), commit: event_id is unique, so the INSERT of a second
\* row raises IntegrityError, which no except clause of the handler catches.
WebhookInsert(w) ==
  /\ inflight[w].op = "webhook" /\ inflight[w].pc = "insert"
  /\ IF events[RaceDelivery.event_id] # <<>>
     THEN /\ inflight' = [inflight EXCEPT ![w].pc = "500"]
          /\ UNCHANGED events
     ELSE /\ events' = [events EXCEPT ![RaceDelivery.event_id] = <<NewWebhookEvent>>]
          /\ inflight' = [inflight EXCEPT ![w].pc = "process"]
  /\ UNCHANGED <<use_memory, tier1, tier2, now, vault, acl, run, ws, res>>

\* The dispatch on event_type: update_deployment_status and its result.
WebhookProcess(w) ==
  /\ inflight[w].op = "webhook" /\ inflight[w].pc = "process"
  /\ LET u == ProcessEvent(tier1, tier2, RaceDelivery.event_type,
                           <<RaceDelivery.prefab_id, RaceDelivery.version>>,
                           RaceDelivery.knative_service_url, {})
     IN /\ tier1' = u.t1
        /\ tier2' = u.t2
        /\ inflight' = [inflight EXCEPT ![w] = [@ EXCEPT !.pc = "mark", !.local = u.ret]]
  /\ UNCHANGED <<use_memory, events, now, vault, acl, run, ws, res>>

\* existing.processed = True, commit, return "processed".
WebhookMark(w) ==
  /\ inflight[w].op = "webhook" /\ inflight[w].pc = "mark"
  /\ events' = [events EXCEPT ![RaceDelivery.event_id] =
                  <<MarkProcessed(events[RaceDelivery.event_id][1])>>]
  /\ inflight' = [inflight EXCEPT ![w].pc = "processed"]
  /\ UNCHANGED <<use_memory, tier1, tier2, now, vault, acl, run, ws, res>>

\* Two deliveries of one event handled side by side, next to the publish
\* endpoint and the clock.
NextWebhookRace ==
  \/ Tick
  \/ SetSpec(WebhookKeys)
  \/ \E w \in Workers :
       \/ WebhookBegin(w)
       \/ WebhookSelect(w)
       \/ WebhookInsert(w)
       \/ WebhookProcess(w)
       \/ WebhookMark(w)

SpecWebhookRace == Init /\ [][NextWebhookRace]_vars

\* ------------------------------------------------------------------ claims
\* The spec a call on key k reads when no fault occurs: <<spec>>, or <<>> when
\* the key is in neither tier.
VisibleSpec(k) ==
  LET key == _make_key(k[1], k[2])
  IN IF tier1[key] # <<>> THEN <<tier1[key][2]>>
     ELSE IF tier2[k] # <<>> THEN <<tier2[k][1].spec_json>>
     ELSE <<>>

\* The function a call addresses in the spec it reads, <<>> if there is none.
VisibleFunction(call) ==
  LET sp == VisibleSpec(<<call.prefab_id, call.version>>)
  IN IF sp = <<>> THEN <<>> ELSE FindFunction(sp[1], call.function_name)

AtCall == run.pc = "loop" /\ run.idx <= Len(run.calls)

ResultSeqs ==
  UNION {[1..n -> {[status |-> SUCCESS, output |-> <<{}>>, error |-> None],
                   [status |-> FAILED, output |-> <<>>, error |-> "TypeError"]}] :
           n \in 0..MaxCalls}

\* C1: every batch is answered with the envelope, never a top-level error;
\* the envelope holds one result per call, results[i] was produced by the pass
\* over calls[i], and the pass over calls[i+1] starts only once results[i]
\* is there.
C1_OneResultPerCall ==
  /\ run.pc # "aborted"
  /\ Len(run.origin) = Len(run.results)
  /\ \A i \in 1..Len(run.origin) : run.origin[i] = i
  /\ run.pc = "loop" => run.idx = Len(run.results) + 1
  /\ run.pc = "done" => Len(run.results) = Len(run.calls)

\* C1 witness: a batch of at least two calls has been answered.
C1_Witness ==
  /\ run.pc = "done"
  /\ Len(run.calls) >= 2
  /\ Len(run.results) = Len(run.calls)

\* C2 (as claimed): a call that fails gets a FAILED result and the loop goes
\* on; when the key is unpublished the result's error is NotFound.
C2_FailingCallNeverAborts ==
  AtCall =>
    \A D \in Downstream :
      LET call == run.calls[run.idx]
          r == ProcessCall(call, run.user, tier1, tier2, vault, acl, D, {})
          rn == RunStep(run, r)
      IN r.kind # "ok" =>
           /\ rn.pc = "loop"
           /\ Len(rn.results) = Len(run.results) + 1
           /\ rn.results[Len(rn.results)].status = FAILED
           /\ VisibleSpec(<<call.prefab_id, call.version>>) = <<>>
                => rn.results[Len(rn.results)].error = "NotFound"

\* C3: the envelope's status is COMPLETED exactly when every result is
\* SUCCESS (the empty batch included) and PARTIAL_SUCCESS otherwise, both for
\* the envelopes the endpoint returns and for every list of results.
C3_BatchStatus ==
  /\ run.pc = "done" =>
       /\ run.status \in {"COMPLETED", "PARTIAL_SUCCESS"}
       /\ run.status = "COMPLETED"
            <=> \A i \in 1..Len(run.results) : run.results[i].status = SUCCESS
  /\ \A rs \in ResultSeqs :
       /\ overall_status(rs) \in {"COMPLETED", "PARTIAL_SUCCESS"}
       /\ overall_status(rs) = "COMPLETED"
            <=> \A i \in 1..Len(rs) : rs[i].status = SUCCESS

\* C3 witness: a non-empty batch has been answered PARTIAL_SUCCESS.
C3_Witness ==
  /\ run.pc = "done"
  /\ Len(run.results) >= 1
  /\ run.status = "PARTIAL_SUCCESS"

\* C4 (as claimed): a call whose InputFile argument the caller cannot read
\* gets a FAILED result with a PermissionError and posts nothing downstream.
C4_UnreadableInputFile ==
  AtCall =>
    \A D \in Downstream :
      LET call == run.calls[run.idx]
          fd == VisibleFunction(call)
          r == ProcessCall(call, run.user, tier1, tier2, vault, acl, D, {})
          rn == RunStep(run, r)
      IN (/\ fd # <<>>
          /\ validate_inputs(call.inputs, fd[1])
          /\ ~check_input_file_permissions(call.inputs, fd[1], run.user, acl))
         => /\ r.sent = <<>>
            /\ Len(rn.results) = Len(run.results) + 1
            /\ rn.results[Len(rn.results)].status = FAILED
            /\ rn.results[Len(rn.results)].error = "PermissionError"

\* C5 (as claimed): with a secret v stored for (user, unit, name), a valid
\* call to a published function that requires it posts v downstream and,
\* the downstream answering 2xx, gets a SUCCESS result.
C5_StoredSecretReachesDownstream ==
  AtCall =>
    LET call == run.calls[run.idx]
        fd == VisibleFunction(call)
        r == ProcessCall(call, run.user, tier1, tier2, vault, acl, "ok", {})
        rn == RunStep(run, r)
    IN \A v \in SecretValues, n \in SecretNames :
         (/\ fd # <<>>
          /\ \E i \in 1..Len(fd[1].secrets) :
               fd[1].secrets[i].name = n /\ fd[1].secrets[i].required
          /\ validate_inputs(call.inputs, fd[1])
          /\ check_input_file_permissions(call.inputs, fd[1], run.user, acl)
          /\ vault[<<run.user, call.prefab_id, n>>] # <<>>
          /\ vault[<<run.user, call.prefab_id, n>>][1].status = ACTIVE
          /\ vault[<<run.user, call.prefab_id, n>>][1].secret_value = encrypt(v)
          /\ v # "")
         => /\ Len(r.sent) = 1
            /\ <<n, v>> \in r.sent[1].secrets
            /\ Len(rn.results) = Len(run.results) + 1
            /\ rn.results[Len(rn.results)].status = SUCCESS

\* The content of an L1 entry, whichever store holds it.
L1Content(entry) == entry[2]

RecognizedTypes == {"deployment.success", "deployment.failed", "deployment.started"}

\* Deliveries that pass the structural validation.
WellFormed(PS) ==
  {p \in PS : Truthy(p.event_id) /\ Truthy(p.event_type)
              /\ Truthy(p.prefab_id) /\ Truthy(p.version)}

\* C6: a delivery whose event_id is already recorded with processed = TRUE is
\* a no-op: the response is already_processed and the spec row, the L1 entry
\* and the event row (retry_count, processing_error included) stay as they are.
C6_RedeliveryIsNoOp ==
  \A payload \in WellFormed(WebhookPayloads), F \in WebhookFaultSets :
    (events[payload.event_id] # <<>> /\ events[payload.event_id][1].processed) =>
      LET r == receive_factory_webhook(tier1, tier2, events, payload, F)
      IN /\ r.ret = "already_processed"
         /\ r.t2 = tier2
         /\ r.t1 = tier1
         /\ r.ev = events

\* C6 witness: an event is processed, its deployment.success has stamped
\* deployed_at, and the clock has moved on since.
C6_Witness ==
  \E e \in EventIds, k \in WebhookKeys :
    /\ events[e] # <<>> /\ events[e][1].processed
    /\ tier2[k] # <<>>
    /\ tier2[k][1].deployment_status = DEPLOYED
    /\ tier2[k][1].deployed_at # NullTime
    /\ tier2[k][1].deployed_at < now

\* C7 (as claimed): whenever applying the transition of a recognized event
\* fails, the delivery leaves the event unprocessed, records the error and
\* increments retry_count by one.
C7_ProcessedOnlyIfCommitted ==
  \A payload \in WellFormed(WebhookPayloads), F \in WebhookFaultSets :
    LET e == payload.event_id
        k == <<payload.prefab_id, payload.version>>
        old == IF events[e] = <<>> THEN NewWebhookEvent ELSE events[e][1]
        u == ProcessEvent(tier1, tier2, payload.event_type, k,
                          payload.knative_service_url, F)
        r == receive_factory_webhook(tier1, tier2, events, payload, F)
    IN (/\ payload.event_type \in RecognizedTypes
        /\ ~old.processed
        /\ ~(events[e] = <<>> /\ "insert" \in F)
        /\ old.retry_count < MaxRetry
        /\ u.ret # "True")
       => /\ r.ev[e] # <<>>
          /\ ~r.ev[e][1].processed
          /\ r.ev[e][1].processing_error # None
          /\ r.ev[e][1].retry_count = old.retry_count + 1

\* C8 (as claimed): right after a publish that reported success, get returns
\* the published spec.
C8_GetAfterPublish ==
  \A k \in Keys, spec \in SpecIds, F \in SetFaultSets :
    LET r == set_spec(tier1, tier2, k, spec, None, PENDING, F)
    IN r.ret => get_spec(r.t1, r.t2, k, {}).ret = spec

\* C9 (as claimed): once a delivery that changed the deployment status has
\* been processed, the key has no L1 entry, so the next get reads L2.
C9_StatusChangeInvalidatesL1 ==
  \A payload \in WellFormed(WebhookPayloads), F \in WebhookFaultSets :
    LET k == <<payload.prefab_id, payload.version>>
        r == receive_factory_webhook(tier1, tier2, events, payload, F)
    IN (/\ r.ret = "processed"
        /\ tier2[k] # <<>>
        /\ r.t2[k][1].deployment_status # tier2[k][1].deployment_status)
       => /\ r.t1[_make_key(k[1], k[2])] = <<>>
          /\ get_spec(r.t1, r.t2, k, {}).t2[k][1].call_count
               = r.t2[k][1].call_count + 1

\* C10: a publish whose L2 write fails reports failure and leaves both tiers
\* as they were; a publish changes the L1 entry only to the spec it has just
\* committed to L2; and no step of the cache puts into L1 a content that L2
\* does not hold for that key at that moment.
C10_PublishStep ==
  \A k \in Keys, spec \in SpecIds, F \in SetFaultSets :
    LET key == _make_key(k[1], k[2])
        r == set_spec(tier1, tier2, k, spec, None, PENDING, F)
    IN /\ "db" \in F => (~r.ret /\ r.t1 = tier1 /\ r.t2 = tier2)
       /\ r.t1[key] # tier1[key] =>
            (/\ r.ret
             /\ r.t2[k] # <<>>
             /\ r.t2[k][1].spec_json = spec
             /\ L1Content(r.t1[key]) = spec)

C10_L1WriteFollowsL2 ==
  \A k \in Keys :
    LET key == _make_key(k[1], k[2])
    IN (tier1'[key] # tier1[key] /\ tier1'[key] # <<>>) =>
         (tier2'[k] # <<>> /\ tier2'[k][1].spec_json = L1Content(tier1'[key]))

C11_AbsenceOnlyFromL2 ==
  \A k \in Keys, F \in GetFaultSets :
    get_spec(tier1, tier2, k, F).ret = None => tier2[k] = <<>>

\* The deployment_status column of every existing row is the same in t2b as
\* in t2a.
SameStatus(t2a, t2b) ==
  \A k \in Keys :
    (t2a[k] # <<>> /\ t2b[k] # <<>>)
      => t2b[k][1].deployment_status = t2a[k][1].deployment_status

\* C12 (as claimed): publish, get and delete leave the deployment_status of
\* every existing row as it is; only webhook processing changes it.
C12_StatusChangedOnlyByWebhook ==
  /\ \A k \in Keys, spec \in SpecIds, F \in SetFaultSets :
       SameStatus(tier2, set_spec(tier1, tier2, k, spec, None, PENDING, F).t2)
  /\ \A k \in Keys, F \in GetFaultSets :
       SameStatus(tier2, get_spec(tier1, tier2, k, F).t2)
  /\ \A k \in Keys, F \in DeleteFaultSets :
       SameStatus(tier2, delete_spec(tier1, tier2, k, F).t2)

\* The edges of the claimed status machine.
StatusEdges ==
  {<<PENDING, BUILDING>>, <<BUILDING, DEPLOYING>>,
   <<DEPLOYING, DEPLOYED>>, <<DEPLOYING, FAILED_STATUS>>,
   <<DEPLOYED, DEPLOYING>>, <<FAILED_STATUS, DEPLOYING>>}

\* C13 (as claimed): whenever a webhook delivery changes the
\* deployment_status of a row, the change is an edge of the status machine.
C13_WebhookFollowsStatusMachine ==
  \A payload \in WellFormed(WebhookPayloads), F \in WebhookFaultSets :
    LET k == <<payload.prefab_id, payload.version>>
        r == receive_factory_webhook(tier1, tier2, events, payload, F)
    IN (/\ tier2[k] # <<>>
        /\ r.t2[k][1].deployment_status # tier2[k][1].deployment_status)
       => <<tier2[k][1].deployment_status, r.t2[k][1].deployment_status>>
            \in StatusEdges

\* The status each recognized event type asks for.
TargetStatus(event_type) ==
  IF event_type = "deployment.success" THEN DEPLOYED
  ELSE IF event_type = "deployment.failed" THEN FAILED_STATUS
  ELSE DEPLOYING

\* C14: a delivery of a recognized event that is not yet processed, for a key
\* whose row exists and whose L2 writes go through, sets the row's status by
\* event type; deployment.success also stamps deployed_at with the current
\* time and records the event's knative_service_url when it carries one;
\* deployment.failed and deployment.started leave deployed_at and
\* knative_service_url as they were; no other column of the row changes.
C14_StatusByEventType ==
  \A payload \in WellFormed(WebhookPayloads), F \in WebhookFaultSets :
    LET e == payload.event_id
        k == <<payload.prefab_id, payload.version>>
        r == receive_factory_webhook(tier1, tier2, events, payload, F)
    IN (/\ payload.event_type \in RecognizedTypes
        /\ ~(events[e] # <<>> /\ events[e][1].processed)
        /\ tier2[k] # <<>>
        /\ F \cap {"db", "insert"} = {})
       => LET old == tier2[k][1]
              new == r.t2[k][1]
              success == payload.event_type = "deployment.success"
          IN /\ new.deployment_status = TargetStatus(payload.event_type)
             /\ new.deployed_at = IF success THEN now ELSE old.deployed_at
             /\ new.knative_service_url =
                  IF success /\ Truthy(payload.knative_service_url)
                  THEN payload.knative_service_url
                  ELSE old.knative_service_url
             /\ new.spec_json = old.spec_json
             /\ new.call_count = old.call_count
             /\ new.last_called_at = old.last_called_at

\* C14 witness: a deployment.success has stamped a row at a later reading of
\* the clock and recorded its URL, and an event is marked processed.
C14_Witness ==
  \E e \in EventIds, k \in WebhookKeys :
    /\ events[e] # <<>> /\ events[e][1].processed
    /\ tier2[k] # <<>>
    /\ tier2[k][1].deployment_status = DEPLOYED
    /\ tier2[k][1].knative_service_url \in Urls
    /\ tier2[k][1].deployed_at = now
    /\ now > 1

\* Well-formed deliveries whose event_type the handler does not dispatch on.
UnrecognizedDeliveries ==
  {p \in WellFormed(WebhookPayloads) : p.event_type \notin RecognizedTypes}

\* C15: a well-formed delivery with an unrecognized event_type changes no
\* prefab_specs row and no L1 entry, whatever faults occur; when the insert of
\* its row commits, or the row is already there, the event is on record
\* afterwards.
C15_UnrecognizedTypeRecordedOnly ==
  \A payload \in UnrecognizedDeliveries, F \in WebhookFaultSets :
    LET e == payload.event_id
        r == receive_factory_webhook(tier1, tier2, events, payload, F)
    IN /\ r.t2 = tier2
       /\ r.t1 = tier1
       /\ (events[e] # <<>> \/ "insert" \notin F) => r.ev[e] # <<>>
       /\ \A x \in EventIds \ {e} : r.ev[x] = events[x]

\* C15 witness: a key is deployed and cached, and a first delivery with an
\* unrecognized type is recorded as processed by the handler.
C15_Witness ==
  \E payload \in UnrecognizedDeliveries :
    LET e == payload.event_id
        k == <<payload.prefab_id, payload.version>>
        r == receive_factory_webhook(tier1, tier2, events, payload, {})
    IN /\ events[e] = <<>>
       /\ tier2[k] # <<>>
       /\ tier2[k][1].deployment_status = DEPLOYED
       /\ tier1[_make_key(k[1], k[2])] # <<>>
       /\ r.ret = "processed"
       /\ r.ev[e] # <<>> /\ r.ev[e][1].processed

\* A Fernet token of a plaintext.
FernetToken(plaintext) == <<"fernet", plaintext>>

\* The vault after one more operation that is neither a store nor a delete on
\* key vk: a read of any key, or a store or delete on another key.
OtherVaultOps(vlt, vk) ==
  {get_secret(vlt, x).vault : x \in VaultKeys}
    \cup {store_secret(vlt, x, v) : x \in VaultKeys \ {vk}, v \in SecretValues}
    \cup {delete_secret(vlt, x).vault : x \in VaultKeys \ {vk}}

AnyVaultOp(vlt) ==
  {get_secret(vlt, x).vault : x \in VaultKeys}
    \cup {store_secret(vlt, x, v) : x \in VaultKeys, v \in SecretValues}
    \cup {delete_secret(vlt, x).vault : x \in VaultKeys}

\* C17 (as claimed): deleting a key whose record is already DISABLED leaves
\* the state unchanged.
C17_RedeleteChangesNothing ==
  \A vk \in VaultKeys :
    (vault[vk] # <<>> /\ vault[vk][1].status = DISABLED)
      => delete_secret(vault, vk).vault = vault

\* C17 (amended): delete sets the record's status to DISABLED and keeps the
\* record, its value and its last use; afterwards get returns absence and list
\* omits the name; deleting a key that never existed changes nothing; deleting
\* an already DISABLED record changes nothing but its updated_at, which is
\* set to the time of the call; no other key is touched, and no operation
\* removes a record.
C17_SoftDelete ==
  \A vk \in VaultKeys :
    LET d == delete_secret(vault, vk)
    IN /\ d.ret \in {"True", "False"}
       /\ \A x \in VaultKeys \ {vk} : d.vault[x] = vault[x]
       /\ vault[vk] = <<>> => (d.vault = vault /\ d.ret = "False")
       /\ vault[vk] # <<>> =>
            /\ d.ret = "True"
            /\ d.vault[vk] = <<[vault[vk][1] EXCEPT !.status = DISABLED,
                                                    !.updated_at = now]>>
       /\ get_secret(d.vault, vk).ret = None
       /\ <<vk[2], vk[3]>> \notin list_secrets(d.vault, vk[1], None)
       /\ <<vk[2], vk[3]>> \notin list_secrets(d.vault, vk[1], vk[2])
       /\ \A s \in AnyVaultOp(vault) : \A x \in VaultKeys :
            vault[x] # <<>> => s[x] # <<>>

\* A secret that was stored and read has been deleted at a later time.
C17_Witness ==
  \E vk \in VaultClockKeys :
    /\ vault[vk] # <<>>
    /\ vault[vk][1].status = DISABLED
    /\ vault[vk][1].secret_value = FernetToken("sk1")
    /\ vault[vk][1].last_used_at = 1
    /\ vault[vk][1].updated_at = now
    /\ now > 1
    /\ get_secret(vault, vk).ret = None

\* C18: store is an upsert that forces ACTIVE.  There is never more than one
\* record per (user, unit, name); a store on any key, absent, ACTIVE or
\* DISABLED, leaves exactly one record there, ACTIVE and holding the
\* ciphertext of the new value, touches no other key, and a get that follows
\* returns the new value.
C18_StoreIsUpsert ==
  /\ \A vk \in VaultKeys : Len(vault[vk]) <= 1
  /\ \A vk \in VaultKeys, v \in SecretValues :
       LET s == store_secret(vault, vk, v)
       IN /\ Len(s[vk]) = 1
          /\ s[vk][1].status = ACTIVE
          /\ s[vk][1].secret_value = encrypt(v)
          /\ \A x \in VaultKeys \ {vk} : s[x] = vault[x]
          /\ get_secret(s, vk).ret = v

\* A deleted secret is stored again with another value and becomes readable.
C18_Witness ==
  \E vk \in VaultOpKeys :
    /\ vault[vk] # <<>>
    /\ vault[vk][1].status = DISABLED
    /\ vault[vk][1].secret_value = FernetToken("sk1")
    /\ get_secret(vault, vk).ret = None
    /\ LET s == store_secret(vault, vk, "sk2")
       IN /\ s[vk][1].status = ACTIVE
          /\ get_secret(s, vk).ret = "sk2"

\* The unit argument of list: a unit, or none supplied.
ListUnits == SecretPrefabs \cup {None}

\* C19: list(user, unit?) is exactly the set of (unit, name) pairs of the
\* calling user's ACTIVE records, restricted to the unit when one is supplied;
\* every element is a (unit, name) pair and holds no stored value; a secret
\* just stored is listed for its unit and stays listed through every
\* operation that is not a store or delete on its key, and a deleted one is
\* not listed.
C19_ListIsOwnActiveNames ==
  /\ \A user_id \in Users, prefab_id \in ListUnits :
       LET ls == list_secrets(vault, user_id, prefab_id)
       IN /\ ls \subseteq SecretPrefabs \X SecretNames
          /\ \A e \in ls : e[1] \notin SecretValues /\ e[2] \notin SecretValues
          /\ \A p \in SecretPrefabs, n \in SecretNames :
               <<p, n>> \in ls <=>
                 /\ vault[<<user_id, p, n>>] # <<>>
                 /\ vault[<<user_id, p, n>>][1].status = ACTIVE
                 /\ (prefab_id # None => p = prefab_id)
  /\ \A vk \in VaultKeys, v \in SecretValues :
       LET s == store_secret(vault, vk, v)
       IN /\ <<vk[2], vk[3]>> \in list_secrets(s, vk[1], vk[2])
          /\ <<vk[2], vk[3]>> \in list_secrets(s, vk[1], None)
          /\ \A s2 \in OtherVaultOps(s, vk) :
               <<vk[2], vk[3]>> \in list_secrets(s2, vk[1], vk[2])
          /\ <<vk[2], vk[3]>> \notin
               list_secrets(delete_secret(s, vk).vault, vk[1], vk[2])

\* One user holds an ACTIVE secret for one unit and a deleted one for another,
\* while a second user holds an ACTIVE secret for the first unit: the
\* first user's listing names only the first.
C19_Witness ==
  /\ vault[<<"u1", "p1", "API_KEY">>] # <<>>
  /\ vault[<<"u1", "p1", "API_KEY">>][1].status = ACTIVE
  /\ vault[<<"u1", "p2", "API_KEY">>] # <<>>
  /\ vault[<<"u1", "p2", "API_KEY">>][1].status = DISABLED
  /\ vault[<<"u2", "p1", "API_KEY">>] # <<>>
  /\ vault[<<"u2", "p1", "API_KEY">>][1].status = ACTIVE
  /\ list_secrets(vault, "u1", None) = {<<"p1", "API_KEY">>}
  /\ list_secrets(vault, "u1", "p2") = {}
  /\ list_secrets(vault, "u2", "p1") = {<<"p1", "API_KEY">>}

\* C20: membership is per (user, resource).  After grant_ownership(u, r) the
\* user u can read r and every other membership is as it was, so a user who
\* was not granted r still cannot read it; granting again changes nothing;
\* after revoke_access(u, r) the user u cannot read r and every other
\* membership is as it was; revoke_access reports true exactly when u could
\* read r before the call.
C20_AclPerUserResource ==
  \A u \in Users, r \in Files :
    LET g == grant_ownership(acl, u, r)
        v == revoke_access(acl, u, r)
    IN /\ can_read(g, u, r)
       /\ \A u2 \in Users, r2 \in Files :
            <<u2, r2>> # <<u, r>> =>
              /\ can_read(g, u2, r2) <=> can_read(acl, u2, r2)
              /\ can_read(v.acl, u2, r2) <=> can_read(acl, u2, r2)
       /\ grant_ownership(g, u, r) = g
       /\ ~can_read(v.acl, u, r)
       /\ v.ret = "True" <=> can_read(acl, u, r)
       /\ v.ret \in {"True", "False"}
       /\ ~can_read(revoke_access(g, u, r).acl, u, r)
       /\ revoke_access(v.acl, u, r).ret = "False"

\* One user has been granted a resource another user has not; revoking it
\* from the first reports true, from the second false.
C20_Witness ==
  /\ can_read(acl, "u1", "s3://in")
  /\ ~can_read(acl, "u2", "s3://in")
  /\ can_read(acl, "u2", "s3://out")
  /\ revoke_access(acl, "u1", "s3://in").ret = "True"
  /\ ~can_read(revoke_access(acl, "u1", "s3://in").acl, "u1", "s3://in")
  /\ revoke_access(acl, "u2", "s3://in").ret = "False"

\* C21 (as claimed): a sweep removes every top-level directory whose mtime is
\* older than max_age unless its own removal fails, and keeps every younger
\* one; a failure on one directory does not leave another expired directory
\* behind.
C21_SweepRemovesExpired ==
  \A max_age_seconds \in MaxAges, order \in IterDir(ws.dirs), F \in SweepFaults :
    (ws.workspace_root # None /\ F.root = "ok") =>
      LET r == _run_cleanup(ws, max_age_seconds, order, F).ws
          cutoff_time == now - max_age_seconds
      IN \A j \in JobIds :
           ws.dirs[j] # <<>> =>
             /\ ws.dirs[j][1] >= cutoff_time => r.dirs[j] = ws.dirs[j]
             /\ (ws.dirs[j][1] < cutoff_time /\ j \notin F.rmtree)
                  => r.dirs[j] = <<>>

\* C22: a failed sweep never ends the cleanup daemon.  When a sweep has ended
\* in an error the task is asleep again and a further sweep is started later,
\* unless the task is cancelled first; a running task leaves its loop only by
\* cancellation; and the task has returned without looping only where the
\* workspace root is missing.
C22_DaemonSurvivesFailedSweep ==
  /\ (ws.task = "sleeping" /\ ws.last \in {"error", "caught"})
       ~> (ws.task \in {"sweeping", "cancelled"})
  /\ [][ws.task \in {"sleeping", "sweeping"}
          => ws'.task \in {"sleeping", "sweeping", "cancelled"}]_vars
  /\ [](ws.task = "returned" => ws.workspace_root = None)
  /\ [](ws.last = "error" => ws.task # "returned")

\* A sweep has been started after one that raised.
C22_Witness ==
  /\ ws.task = "sweeping"
  /\ ws.last = "error"
  /\ ws.workspace_root # None

\* C26 (as claimed): with the workspace root unavailable the file handler
\* passes through rather than fails: create_workspace does not raise, and
\* download_input_files and upload_output_files return the parameters they
\* were given, unmodified.
C26_DegradedPassThrough ==
  ws.workspace_root = None =>
    /\ \A job_id \in JobIds : create_workspace(ws, job_id).ret # "RuntimeError"
    /\ \A job_id \in JobIds, function_def \in StageFunctions,
          inputs \in StageInputs, s3_fails \in BOOLEAN :
         LET r == download_input_files(ws, function_def, inputs, job_id, s3_fails)
         IN r.kind = "ok" /\ r.ret = inputs /\ r.ws = ws
    /\ \A function_def \in StageFunctions, output \in StageOutputs,
          file_exists \in BOOLEAN, s3_fails \in BOOLEAN :
         LET r == upload_output_files(ws, function_def, output, file_exists,
                                      s3_fails)
         IN r.kind = "ok" /\ r.ret = output

\* A token whose signature is valid, that has not expired, whose audience is
\* the gateway's and that names a subject.
Verified(credentials) ==
  /\ credentials # <<>>
  /\ credentials[1].signature = "valid"
  /\ credentials[1].exp = "future"
  /\ credentials[1].aud = "prefab-gateway"
  /\ credentials[1].sub # None

OpenRoutes == {"GET /", "GET /health", "POST /webhooks/factory"}

\* C23 (as claimed): a request without a verified bearer token enters no
\* handler other than the root and health endpoints and the webhook receiver;
\* everywhere else it is rejected with an authentication error.
C23_OnlyOpenRoutesWithoutToken ==
  (res.fn = "request" /\ ~Verified(res.credentials)) =>
    \/ res.route \in OpenRoutes
    \/ ~res.entered /\ res.error \in {"401", "not_authenticated"}

\* Deliveries that lack one of the four required fields.
Malformed(PS) == PS \ WellFormed(PS)

\* C24: a payload lacking event_id, event_type, prefab_id or version is
\* rejected with a validation error whatever else fails: no webhook event is
\* recorded or changed, no spec row is changed and no L1 entry is removed.
C24_MalformedPayloadRejected ==
  \A payload \in Malformed(WebhookPayloads), F \in WebhookFaultSets :
    LET r == receive_factory_webhook(tier1, tier2, events, payload, F)
    IN /\ r.ret = "400"
       /\ r.ev = events
       /\ r.t2 = tier2
       /\ r.t1 = tier1

\* A payload without event_type arrives while its key is published and
\* cached and its event id is unknown.
C24_Witness ==
  \E payload \in Malformed(WebhookPayloads) :
    /\ payload.event_type = None
    /\ events[payload.event_id] = <<>>
    /\ tier2[<<payload.prefab_id, payload.version>>] # <<>>
    /\ tier1[_make_key(payload.prefab_id, payload.version)] # <<>>
    /\ receive_factory_webhook(tier1, tier2, events, payload, {}).ret = "400"

\* C25 (as claimed): under a deployment that sets WEBHOOK_SECRET, a delivery
\* whose signature header is missing or is not the MAC of the body under that
\* secret is answered 401, and neither the webhook events nor the spec rows
\* change.
C25_UnsignedDeliveryRejected ==
  \A env_secret \in WebhookSecrets \ {None}, payload \in SignedPayloads :
    \A x_webhook_signature \in Signatures(payload) :
      x_webhook_signature # Hmac(env_secret, payload) =>
        LET r == factory_webhook(env_secret, x_webhook_signature, tier1, tier2,
                                 events, payload, {})
        IN /\ r.ret = "401"
           /\ r.ev = events
           /\ r.t2 = tier2

\* C27 (as claimed): a deployment event for a key that has no spec row yet
\* creates the row, carrying the status of the event.
C27_EventBeforePublishCreatesRow ==
  \A payload \in WellFormed(WebhookPayloads) :
    LET k == <<payload.prefab_id, payload.version>>
        r == receive_factory_webhook(tier1, tier2, events, payload, {})
    IN (/\ payload.event_type \in RecognizedTypes
        /\ tier2[k] = <<>>
        /\ ~(events[payload.event_id] # <<>> /\ events[payload.event_id][1].processed))
         => /\ r.t2[k] # <<>>
            /\ r.t2[k][1].deployment_status = TargetStatus(payload.event_type)

\* C28 (as claimed): a webhook event is processed exactly when its
\* processed_at is set.
C28_ProcessedHasTimestamp ==
  \A e \in EventIds :
    events[e] # <<>> =>
      (events[e][1].processed <=> events[e][1].processed_at # NullTime)

\* The JSON type each declared type names.
JsonTypes ==
  [string |-> {"str"}, number |-> {"int", "float"}, integer |-> {"int"},
   boolean |-> {"bool"}, array |-> {"list"}, object |-> {"dict"}]

\* C29 (as claimed): validation fails exactly when a declared parameter is
\* required and absent, or present with a value whose type is not the one the
\* declared type names; undeclared keys are accepted and a declared type
\* outside the mapping is not checked.
C29_ValidationExact ==
  res.fn = "validate_inputs" =>
    (res.raised <=>
       \E i \in 1..Len(res.function_def.parameters) :
         LET param == res.function_def.parameters[i]
         IN \/ param.required /\ param.name \notin DOMAIN res.inputs
            \/ /\ param.name \in DOMAIN res.inputs
               /\ param.type \in DOMAIN JsonTypes
               /\ res.inputs[param.name].t \notin JsonTypes[param.type])

\* The active value the vault holds under a key, or None.
Held(vlt, vk) ==
  IF vlt[vk] # <<>> /\ vlt[vk][1].status = ACTIVE
  THEN decrypt(vlt[vk][1].secret_value) ELSE None

\* C30 (as claimed): secret resolution fails with a 400 configuration error
\* exactly when a declared secret is required and the vault holds no active
\* value for it; otherwise it succeeds and the map it returns holds exactly
\* the declared secrets the vault holds, each under its name.
C30_SecretsResolvedExactly ==
  [][(res'.fn = "resolve_secrets" /\ res' # res) =>
       LET secrets == res'.function_def.secrets
           held(i) == Held(vault, <<res'.user_id, res'.prefab_id, secrets[i].name>>)
           missing == \E i \in 1..Len(secrets) :
                        secrets[i].required /\ held(i) = None
       IN IF missing
          THEN res'.kind = "http" /\ res'.code = "400"
          ELSE /\ res'.kind = "ok"
               /\ res'.resolved =
                    {<<secrets[i].name, held(i)>> :
                       i \in {j \in 1..Len(secrets) : held(j) # None}}]_vars

\* Lookup, function resolution, input validation, the InputFile permission
\* check and secret resolution would all succeed for the call.
ReadyForDownstream(call) ==
  LET fd == VisibleFunction(call)
  IN /\ fd # <<>>
     /\ validate_inputs(call.inputs, fd[1])
     /\ check_input_file_permissions(call.inputs, fd[1], run.user, acl)
     /\ \A i \in 1..Len(fd[1].secrets) :
          fd[1].secrets[i].required =>
            Held(vault, <<run.user, call.prefab_id, fd[1].secrets[i].name>>) # None

ReadThrough(k, F, written) ==
  LET key == _make_key(k[1], k[2])
      hit == L1Read(tier1, key, F)
      r == get_spec(tier1, tier2, k, F)
      again == get_spec(r.t1, r.t2, k, {})
  IN /\ hit # <<>> =>
          (r.ret = hit[1] /\ r.t1 = tier1 /\ r.t2 = tier2)
     /\ (hit = <<>> /\ "db" \notin F /\ tier2[k] # <<>>) =>
          /\ r.ret = tier2[k][1].spec_json
          /\ r.t2 = [tier2 EXCEPT ![k] =
                       <<[tier2[k][1] EXCEPT
                            !.call_count = tier2[k][1].call_count + 1,
                            !.last_called_at = now]>>]
          /\ written =>
               /\ r.t1[key] # <<>>
               /\ L1Content(r.t1[key]) = r.ret
               /\ \A c \in CacheKeys \ {key} : r.t1[c] = tier1[c]
               /\ again.ret = r.ret
               /\ again.t2 = r.t2
          /\ ~written => r.t1 = tier1

\* C33 (as claimed): an L1 hit returns the cached spec and touches neither
\* the row nor its counters; an L1 miss or error with an L2 hit adds one to
\* call_count, stamps last_called_at, returns the L2 spec and writes it into
\* L1, so that the next get is an L1 hit with the same content.
C33_ReadThroughAlwaysCaches ==
  \A k \in Keys, F \in GetFaultSets : ReadThrough(k, F, TRUE)

\* C33 (amended): as above, except that the L1 write lands only when it does
\* not fail; a failed L1 write is ignored, the L2 spec is still returned and
\* the counters are still updated, and L1 is left as it was.
C33_ReadThrough ==
  \A k \in Keys, F \in GetFaultSets : ReadThrough(k, F, "l1_set" \notin F)

\* C33 witness: a read-through get has counted one call on a row and left
\* its spec in L1.
C33_Witness ==
  \E k \in Keys :
    /\ tier2[k] # <<>>
    /\ tier2[k][1].call_count >= 1
    /\ tier2[k][1].last_called_at = now
    /\ tier1[_make_key(k[1], k[2])] # <<>>
    /\ L1Content(tier1[_make_key(k[1], k[2])]) = tier2[k][1].spec_json

\* C34 (as claimed): a delete whose L2 step goes through removes the row and
\* the L1 entry and returns true exactly when a row existed; the get that
\* follows reports absence and a second delete returns false.
C34_DeleteRemovesBothTiers ==
  \A k \in Keys, F \in DeleteFaultSets :
    "db" \notin F =>
      LET key == _make_key(k[1], k[2])
          r == delete_spec(tier1, tier2, k, F)
      IN /\ r.ret <=> tier2[k] # <<>>
         /\ r.t2[k] = <<>>
         /\ r.t1[key] = <<>>
         /\ get_spec(r.t1, r.t2, k, {}).ret = None
         /\ ~delete_spec(r.t1, r.t2, k, {}).ret

\* C35 (as claimed): in every state the operations of the cache can reach,
\* failed steps included, a key's L1 entry comes with an L2 row that holds
\* the same spec, and so get returns nothing but the spec L2 holds.
C35_CacheCoherent ==
  \A k \in Keys :
    LET key == _make_key(k[1], k[2])
    IN /\ tier1[key] # <<>> =>
            (tier2[k] # <<>> /\ tier2[k][1].spec_json = L1Content(tier1[key]))
       /\ \A F \in GetFaultSets :
            LET r == get_spec(tier1, tier2, k, F)
            IN r.ret # None => (tier2[k] # <<>> /\ tier2[k][1].spec_json = r.ret)

\* C36 (as claimed): whenever no publish, delete or get on the key is in
\* flight, the key's L1 entry, if there is one, holds the spec of its L2 row.
C36_QuiescentCoherent ==
  (\A w \in Workers : inflight[w].op = "idle") =>
    LET key == _make_key(RaceKey[1], RaceKey[2])
    IN tier1[key] # <<>> =>
         /\ tier2[RaceKey] # <<>>
         /\ tier2[RaceKey][1].spec_json = L1Content(tier1[key])

\* The workers whose delivery changed the row of the key.
Applied == {w \in Workers : inflight[w].op = "webhook" /\ inflight[w].local = "True"}

\* C37 (as claimed): two deliveries of one unrecorded event, handled side by
\* side, leave at most one event row and change the row of the key at most
\* once.
C37_ConcurrentDeliveryOnce ==
  /\ Len(events[RaceDelivery.event_id]) <= 1
  /\ Cardinality(Applied) <= 1

\* No step removes an event row, turns processed back to false or lowers
\* retry_count.
C38_RowsOnlyGrow ==
  \A e \in EventIds :
    events[e] # <<>> =>
      /\ events'[e] # <<>>
      /\ events[e][1].processed => events'[e][1].processed
      /\ events'[e][1].retry_count >= events[e][1].retry_count

\* A delivery for an event that is recorded but not processed works on the
\* existing row: it runs the dispatch again, and when it answers "processed"
\* the row is processed and otherwise as it was.
C38_RedeliveryReusesRow ==
  \A payload \in WebhookPayloads, F \in WebhookFaultSets :
    LET e == payload.event_id
        r == receive_factory_webhook(tier1, tier2, events, payload, F)
        u == ProcessEvent(tier1, tier2, payload.event_type,
                          <<payload.prefab_id, payload.version>>,
                          payload.knative_service_url, F)
    IN (/\ HasRequiredFields(payload)
        /\ events[e] # <<>>
        /\ ~events[e][1].processed)
       => /\ Len(r.ev[e]) = 1
          /\ \A o \in EventIds \ {e} : r.ev[o] = events[o]
          /\ r.ret \in {"processed", "500"}
          /\ r.t1 = u.t1 /\ r.t2 = u.t2
          /\ r.ret = "processed" <=> (u.ret # "raise" /\ "mark" \notin F)
          /\ r.ret = "processed" =>
               r.ev[e] = <<[events[e][1] EXCEPT !.processed = TRUE]>>

\* C38: event rows are never deleted, processed never goes back to false,
\* retry_count never decreases, and a redelivery of a recorded, unprocessed
\* event reuses its row and processes it again, leaving it processed when
\* that succeeds.
C38_AuditTrail == [][C38_RowsOnlyGrow]_vars /\ [](C38_RedeliveryReusesRow)

\* C38 witness: an event whose first delivery failed has been processed by a
\* redelivery, on the same row.
C38_Witness ==
  \E e \in EventIds :
    /\ events[e] # <<>>
    /\ events[e][1].processed
    /\ events[e][1].retry_count >= 1

\* What get and list answer to user u: the value per key of u, the names
\* listed for each unit and for all units.
Answers(vlt, u) ==
  [gets |-> [vk \in {k \in VaultKeys : k[1] = u} |-> get_secret(vlt, vk).ret],
   lists |-> [p \in SecretPrefabs \cup {None} |-> list_secrets(vlt, u, p)]]

\* C39: get(u, p, n) returns the active value of the row of (u, p, n) and of
\* no other row; the secrets resolved for a call are values of the caller's
\* rows for the called unit; and a store, delete or get by another user
\* leaves what get and list answer to u as it was.
C39_SecretIsolation ==
  /\ \A vk \in VaultKeys : get_secret(vault, vk).ret = Held(vault, vk)
  /\ \A u \in Users, p \in SecretPrefabs, fd \in SecretFunctions :
       \A s \in resolve_secrets(u, p, fd, vault).ret :
         s[2] = Held(vault, <<u, p, s[1]>>)
  /\ \A u \in Users, vk \in VaultKeys :
       vk[1] # u =>
         /\ \A v \in SecretValues :
              Answers(store_secret(vault, vk, v), u) = Answers(vault, u)
         /\ Answers(delete_secret(vault, vk).vault, u) = Answers(vault, u)
         /\ Answers(get_secret(vault, vk).vault, u) = Answers(vault, u)

\* C39 witness: two users hold different active values for the same unit
\* and name, and one of them has disabled a secret.
C39_Witness ==
  /\ Held(vault, <<"u1", "p1", "API_KEY">>) = "sk1"
  /\ Held(vault, <<"u2", "p1", "API_KEY">>) = "sk2"
  /\ vault[<<"u1", "p2", "API_KEY">>] # <<>>
  /\ vault[<<"u1", "p2", "API_KEY">>][1].status = DISABLED

\* The ACL changes only in a step that appends a SUCCESS result.
C40_GrantOnlyWithSuccess ==
  acl' # acl =>
    /\ Len(run'.results) = Len(run.results) + 1
    /\ run'.results[Len(run'.results)].status = SUCCESS

\* A pass that does not run to its end leaves the ACL as it was.
C40_FailedCallKeepsAcl ==
  AtCall =>
       \A D \in Downstream, F \in SUBSET {"db"} :
         LET r == ProcessCall(run.calls[run.idx], run.user, tier1, tier2,
                              vault, acl, D, F)
         IN r.kind # "ok" => r.acl = acl

\* C40: the call pipeline grants access only in a pass whose downstream
\* invocation returned; a call that fails at any step leaves the ACL
\* unchanged, and publish, get, status update, delete and L1 expiry neither
\* add nor remove a grant.
C40_GrantsOnlyFromSuccessfulCalls ==
  [][C40_GrantOnlyWithSuccess]_vars /\ [](C40_FailedCallKeepsAcl)

\* C40 witness: a call has failed after the spec cache was published to,
\* and no user holds a grant.
C40_Witness ==
  /\ run.pc = "loop"
  /\ Len(run.results) >= 1
  /\ run.results[Len(run.results)].status = FAILED
  /\ tier2[<<"p1", "v1">>] # <<>>
  /\ \A u \in Users : acl[u] = {}
====
